---------------------------- MODULE Spec2Model ----------------------------
(***************************************************************************)
(* A model of the photo map's EXIF extraction (exif.utils), the metadata   *)
(* stripping re-encoder and the uploader pipeline that calls both.         *)
(*                                                                         *)
(* Bytes are integers 0..255, a buffer is a sequence of bytes (index 1 is  *)
(* byte offset 0).  Strings are sequences of character codes, so that      *)
(* toLowerCase, startsWith, endsWith and the date regular expression are   *)
(* computed, not assumed.  A rational read from the buffer is kept exact   *)
(* as <<numerator, denominator>> in lowest terms; Null (the empty tuple)   *)
(* stands for null / an absent key.                                        *)
(***************************************************************************)
EXTENDS Integers, Sequences, FiniteSets, TLC

VARIABLES
    desc,        \* the description the input file was crafted from
    file,        \* the File handed to extractExifData: type, name, bytes
    pc,          \* position in extractExifData: "start", "scan", "done"
    offset,      \* the scan offset of the segment loop
    result,      \* the value extractExifData resolves with
    threw,       \* TRUE when an exception left extractExifData
    bufferRead,  \* TRUE once file.arrayBuffer() was called
    selected,    \* the files the user picked or dropped on the uploader
    files,       \* the argument of processFiles
    upc,         \* position in processFiles
    idx,         \* index in files of the file being processed
    exifData,    \* processFiles' local: what extractExifData resolved with
    strippedFile,\* processFiles' local: what stripExifData resolved with
    strip,       \* the promise of the stripExifData call in progress
    uploadedFiles, \* processFiles' local list of entries
    uploadError, \* the uploader's error message
    hpc,         \* position in handleUpload
    hidx,        \* index of the entry handleUpload is posting
    handed,      \* the list onUpload was called with
    posted,      \* the form data posted to ?/upload, in order
    events,      \* history: strip settlements, entries created, posts
    photos,      \* the rows of the photos table
    editingPhotoId, \* the map's edit mode: the photo edited (its index), 0 for none
    editBearing, \* the map's edit mode: the bearing being edited
    dateView,    \* the buffer readExifDate is called on
    dateOffset,  \* the offset readExifDate is called with
    dateReturn,  \* whether readExifDate returned, and what
    call,        \* a call of a function on its own: its name, arguments and return value
    table,       \* PhotoService: the rows of the photos table, with owner and paths
    bucket,      \* PhotoService: the paths of the objects in the storage bucket
    reply,       \* PhotoService: the last call, who made it and how it ended
    photoMap     \* PhotoMap: the edit state, the markers and the direction indicator

exifVars == <<desc, file, pc, offset, result, threw, bufferRead>>

uploadVars == <<selected, files, upc, idx, exifData, strippedFile, strip,
                uploadedFiles, uploadError, hpc, hidx, handed, posted, events>>

storeVars == <<photos, editingPhotoId, editBearing>>

dateVars == <<dateView, dateOffset, dateReturn>>

callVars == <<call>>

serviceVars == <<table, bucket, reply>>

mapVars == <<photoMap>>

-----------------------------------------------------------------------------
(* Values *)

Null == <<>>

\* The value a DataView read is given here when the read is out of range
\* (the DataView throws a RangeError).
RangeError == -1

RECURSIVE Gcd(_, _)
Gcd(a, b) == IF b = 0 THEN a ELSE Gcd(b, a % b)

\* num / den for den > 0, in lowest terms.
Ratio(num, den) == LET g == Gcd(num, den) IN <<num \div g, den \div g>>

RatAdd(p, q) ==
    LET g == Gcd(p[2], q[2])
        l == (p[2] \div g) * q[2]
    IN  Ratio(p[1] * (l \div p[2]) + q[1] * (l \div q[2]), l)

\* p / k for an integer k > 0.
RatDivInt(p, k) == LET g == Gcd(p[1], k) IN <<p[1] \div g, p[2] * (k \div g)>>

RatNeg(p) == <<0 - p[1], p[2]>>

\* p <= k, p < k and p >= k for an integer k.
RatLeInt(p, k) == p[1] <= k * p[2]
RatLtInt(p, k) == p[1] < k * p[2]
RatGeInt(p, k) == p[1] >= k * p[2]

-----------------------------------------------------------------------------
(* Strings as character codes *)

ToLowerCase(s) == [i \in 1..Len(s) |-> IF s[i] >= 65 /\ s[i] <= 90 THEN s[i] + 32 ELSE s[i]]

StartsWith(s, p) == Len(s) >= Len(p) /\ SubSeq(s, 1, Len(p)) = p

EndsWith(s, p) == Len(s) >= Len(p) /\ SubSeq(s, Len(s) - Len(p) + 1, Len(s)) = p

IsDigit(c) == c >= 48 /\ c <= 57

\* 'image/jpeg' and '.jpg'
ImageJpeg == <<105, 109, 97, 103, 101, 47, 106, 112, 101, 103>>
DotJpg == <<46, 106, 112, 103>>

-----------------------------------------------------------------------------
(* EXIF tag constants *)

EXIF_MARKER == 65505
EXIF_HEADER == <<69, 120, 105, 102, 0, 0>>
GPS_IFD_POINTER == 34853
GPS_LATITUDE == 2
GPS_LATITUDE_REF == 1
GPS_LONGITUDE == 4
GPS_LONGITUDE_REF == 3
GPS_IMG_DIRECTION == 17
DATE_TIME_ORIGINAL == 36867
DATE_TIME_DIGITIZED == 36868
EXIF_IFD_POINTER == 34665
JPEG_SOI == 65496
TIFF_MAGIC == 42
BYTE_ORDER_II == 18761

-----------------------------------------------------------------------------
(* DataView reads *)

getUint8(view, off) ==
    IF off < 0 \/ off + 1 > Len(view) THEN RangeError ELSE view[off + 1]

getUint16(view, off, littleEndian) ==
    IF off < 0 \/ off + 2 > Len(view) THEN RangeError
    ELSE IF littleEndian THEN view[off + 1] + 256 * view[off + 2]
    ELSE 256 * view[off + 1] + view[off + 2]

getUint32(view, off, littleEndian) ==
    IF off < 0 \/ off + 4 > Len(view) THEN RangeError
    ELSE IF littleEndian
         THEN view[off + 1] + 256 * view[off + 2] + 65536 * view[off + 3]
              + 16777216 * view[off + 4]
         ELSE 16777216 * view[off + 1] + 65536 * view[off + 2]
              + 256 * view[off + 3] + view[off + 4]

-----------------------------------------------------------------------------
(* readExifDate *)

\* The loop of readExifDate: up to 19 characters from offset, stopping at a
\* zero byte.  threw is TRUE when a read was out of range.
RECURSIVE ReadDateChars(_, _, _)
ReadDateChars(view, off, i) ==
    IF i >= 19 THEN [threw |-> FALSE, str |-> <<>>]
    ELSE LET char == getUint8(view, off + i) IN
         IF char = RangeError THEN [threw |-> TRUE, str |-> <<>>]
         ELSE IF char = 0 THEN [threw |-> FALSE, str |-> <<>>]
         ELSE LET rest == ReadDateChars(view, off, i + 1) IN
              [threw |-> rest.threw, str |-> <<char>> \o rest.str]

\* A pattern that takes any character for a separator.
DateMatchAtAnySeparator(str, s) ==
    /\ s >= 1
    /\ s + 18 <= Len(str)
    /\ \A k \in {0, 1, 2, 3, 5, 6, 8, 9, 11, 12, 14, 15, 17, 18} : IsDigit(str[s + k])

\* /(\d{4}):(\d{2}):(\d{2}) (\d{2}):(\d{2}):(\d{2})/ matched at position s.
DateMatchAt(str, s) ==
    /\ s >= 1
    /\ s + 18 <= Len(str)
    /\ \A k \in {0, 1, 2, 3, 5, 6, 8, 9, 11, 12, 14, 15, 17, 18} : IsDigit(str[s + k])
    /\ \A k \in {4, 7, 13, 16} : str[s + k] = 58
    /\ str[s + 10] = 32

\* The position of the first match of the (unanchored) pattern, 0 for none.
DateMatch(str) ==
    LET hits == {s \in 1..Len(str) : DateMatchAt(str, s)} IN
    IF hits = {} THEN 0 ELSE CHOOSE s \in hits : \A t \in hits : s <= t

\* `${year}-${month}-${day}T${hour}:${min}:${sec}Z` from the match at s.
FormatIso(str, s) ==
    SubSeq(str, s, s + 3) \o <<45>> \o SubSeq(str, s + 5, s + 6) \o <<45>>
    \o SubSeq(str, s + 8, s + 9) \o <<84>> \o SubSeq(str, s + 11, s + 12)
    \o <<58>> \o SubSeq(str, s + 14, s + 15) \o <<58>>
    \o SubSeq(str, s + 17, s + 18) \o <<90>>

readExifDate(view, off) ==
    LET r == ReadDateChars(view, off, 0) IN
    IF r.threw THEN Null
    ELSE LET s == DateMatch(r.str) IN
         IF s = 0 THEN Null ELSE FormatIso(r.str, s)

-----------------------------------------------------------------------------
(* gpsToDecimal, readGpsRationals *)

IsSouthOrWest(ref) == ref = 83 \/ ref = 87

\* The sign of a reference test that knows 'S' only.
SignForSouthOnly(decimal, ref) == IF ref = 83 THEN RatNeg(decimal) ELSE decimal

SignFor(decimal, ref) == IF IsSouthOrWest(ref) THEN RatNeg(decimal) ELSE decimal

gpsToDecimal(degrees, minutes, seconds, ref) ==
    SignFor(RatAdd(RatAdd(degrees, RatDivInt(minutes, 60)), RatDivInt(seconds, 3600)),
            ref)

\* One rational of readGpsRationals: den !== 0 ? num / den : 0.
\* Null when a read was out of range.
ReadRationalOrZero(view, off, littleEndian) ==
    LET num == getUint32(view, off, littleEndian)
        den == getUint32(view, off + 4, littleEndian)
    IN  IF num = RangeError \/ den = RangeError THEN Null
        ELSE IF den # 0 THEN Ratio(num, den) ELSE <<0, 1>>

\* The three values, or Null when a read threw.
readGpsRationals(view, off, littleEndian) ==
    LET v0 == ReadRationalOrZero(view, off, littleEndian)
        v1 == ReadRationalOrZero(view, off + 8, littleEndian)
        v2 == ReadRationalOrZero(view, off + 16, littleEndian)
    IN  IF v0 = Null \/ v1 = Null \/ v2 = Null THEN Null ELSE <<v0, v1, v2>>

-----------------------------------------------------------------------------
(* parseGpsIfd *)

GpsLocals == [latRef |-> Null, lngRef |-> Null, latValues |-> Null,
              lngValues |-> Null, bearing |-> Null, threw |-> FALSE]

\* An entry loop body that keeps the first direction captured.
GpsEntryFirstWins(view, entryOffset, tiffOffset, littleEndian, acc) ==
    LET tag == getUint16(view, entryOffset, littleEndian)
        type == getUint16(view, entryOffset + 2, littleEndian)
        count == getUint32(view, entryOffset + 4, littleEndian)
        ref == getUint8(view, entryOffset + 8)
        valueOffset == getUint32(view, entryOffset + 8, littleEndian)
        Thrown == [acc EXCEPT !.threw = TRUE]
    IN  IF tag = RangeError \/ type = RangeError \/ count = RangeError THEN Thrown
        ELSE IF tag = GPS_LATITUDE_REF
        THEN IF ref = RangeError THEN Thrown ELSE [acc EXCEPT !.latRef = <<ref>>]
        ELSE IF tag = GPS_LONGITUDE_REF
        THEN IF ref = RangeError THEN Thrown ELSE [acc EXCEPT !.lngRef = <<ref>>]
        ELSE IF tag = GPS_LATITUDE /\ type = 5 /\ count = 3
        THEN IF valueOffset = RangeError THEN Thrown
             ELSE LET v == readGpsRationals(view, tiffOffset + valueOffset, littleEndian)
                  IN  IF v = Null THEN Thrown ELSE [acc EXCEPT !.latValues = v]
        ELSE IF tag = GPS_LONGITUDE /\ type = 5 /\ count = 3
        THEN IF valueOffset = RangeError THEN Thrown
             ELSE LET v == readGpsRationals(view, tiffOffset + valueOffset, littleEndian)
                  IN  IF v = Null THEN Thrown ELSE [acc EXCEPT !.lngValues = v]
        ELSE IF tag = GPS_IMG_DIRECTION /\ type = 5
        THEN IF valueOffset = RangeError THEN Thrown
             ELSE LET num == getUint32(view, tiffOffset + valueOffset, littleEndian)
                      den == getUint32(view, tiffOffset + valueOffset + 4, littleEndian)
                  IN  IF num = RangeError \/ den = RangeError THEN Thrown
                      ELSE IF den # 0 /\ acc.bearing = Null THEN [acc EXCEPT !.bearing = Ratio(num, den)]
                      ELSE acc
        ELSE acc

\* One iteration of the entry loop of parseGpsIfd on the locals acc.
GpsEntry(view, entryOffset, tiffOffset, littleEndian, acc) ==
    LET tag == getUint16(view, entryOffset, littleEndian)
        type == getUint16(view, entryOffset + 2, littleEndian)
        count == getUint32(view, entryOffset + 4, littleEndian)
        ref == getUint8(view, entryOffset + 8)
        valueOffset == getUint32(view, entryOffset + 8, littleEndian)
        Thrown == [acc EXCEPT !.threw = TRUE]
    IN  IF tag = RangeError \/ type = RangeError \/ count = RangeError THEN Thrown
        ELSE IF tag = GPS_LATITUDE_REF
        THEN IF ref = RangeError THEN Thrown ELSE [acc EXCEPT !.latRef = <<ref>>]
        ELSE IF tag = GPS_LONGITUDE_REF
        THEN IF ref = RangeError THEN Thrown ELSE [acc EXCEPT !.lngRef = <<ref>>]
        ELSE IF tag = GPS_LATITUDE /\ type = 5 /\ count = 3
        THEN IF valueOffset = RangeError THEN Thrown
             ELSE LET v == readGpsRationals(view, tiffOffset + valueOffset, littleEndian)
                  IN  IF v = Null THEN Thrown ELSE [acc EXCEPT !.latValues = v]
        ELSE IF tag = GPS_LONGITUDE /\ type = 5 /\ count = 3
        THEN IF valueOffset = RangeError THEN Thrown
             ELSE LET v == readGpsRationals(view, tiffOffset + valueOffset, littleEndian)
                  IN  IF v = Null THEN Thrown ELSE [acc EXCEPT !.lngValues = v]
        ELSE IF tag = GPS_IMG_DIRECTION /\ type = 5
        THEN IF valueOffset = RangeError THEN Thrown
             ELSE LET num == getUint32(view, tiffOffset + valueOffset, littleEndian)
                      den == getUint32(view, tiffOffset + valueOffset + 4, littleEndian)
                  IN  IF num = RangeError \/ den = RangeError THEN Thrown
                      ELSE IF den # 0 THEN [acc EXCEPT !.bearing = Ratio(num, den)]
                      ELSE acc
        ELSE acc

RECURSIVE GpsLoop(_, _, _, _, _, _, _)
GpsLoop(view, ifdOffset, tiffOffset, littleEndian, entryCount, i, acc) ==
    IF i >= entryCount \/ acc.threw THEN acc
    ELSE GpsLoop(view, ifdOffset, tiffOffset, littleEndian, entryCount, i + 1,
                 GpsEntry(view, ifdOffset + 2 + i * 12, tiffOffset, littleEndian, acc))

\* The conversion after the loop: an axis is set when both its values and its
\* reference were captured.
GpsCoordinates(acc) ==
    [latitude |-> IF acc.latValues # Null /\ acc.latRef # Null
                  THEN gpsToDecimal(acc.latValues[1], acc.latValues[2],
                                    acc.latValues[3], acc.latRef[1])
                  ELSE Null,
     longitude |-> IF acc.lngValues # Null /\ acc.lngRef # Null
                   THEN gpsToDecimal(acc.lngValues[1], acc.lngValues[2],
                                     acc.lngValues[3], acc.lngRef[1])
                   ELSE Null,
     bearing |-> acc.bearing]

\* A parseGpsIfd that converts whatever coordinates were captured, also after
\* a read out of range.
parseGpsIfdKeepsPartial(view, ifdOffset, tiffOffset, littleEndian) ==
    LET entryCount == getUint16(view, ifdOffset, littleEndian) IN
    IF entryCount = RangeError
    THEN [latitude |-> Null, longitude |-> Null, bearing |-> Null]
    ELSE GpsCoordinates(GpsLoop(view, ifdOffset, tiffOffset, littleEndian, entryCount,
                                0, GpsLocals))

\* The Partial<ExifData> parseGpsIfd returns; Null is a key that is not set.
\* result.bearing is assigned inside the loop, so it survives a later throw;
\* the coordinates are assigned after the loop and do not.
parseGpsIfd(view, ifdOffset, tiffOffset, littleEndian) ==
    LET entryCount == getUint16(view, ifdOffset, littleEndian) IN
    IF entryCount = RangeError
    THEN [latitude |-> Null, longitude |-> Null, bearing |-> Null]
    ELSE LET acc == GpsLoop(view, ifdOffset, tiffOffset, littleEndian, entryCount, 0,
                            GpsLocals)
         IN  IF acc.threw
             THEN [latitude |-> Null, longitude |-> Null, bearing |-> acc.bearing]
             ELSE GpsCoordinates(acc)

-----------------------------------------------------------------------------
(* parseDateFromExifIfd *)

IsDateTag(tag) == tag = DATE_TIME_ORIGINAL \/ tag = DATE_TIME_DIGITIZED

\* Returns at the first date tag with whatever readExifDate gives for it;
\* a read out of range ends the function with null.
RECURSIVE ExifIfdLoop(_, _, _, _, _, _)
ExifIfdLoop(view, ifdOffset, tiffOffset, littleEndian, entryCount, i) ==
    IF i >= entryCount THEN Null
    ELSE LET entryOffset == ifdOffset + 2 + i * 12
             tag == getUint16(view, entryOffset, littleEndian)
             valueOffset == getUint32(view, entryOffset + 8, littleEndian)
         IN  IF tag = RangeError THEN Null
             ELSE IF IsDateTag(tag)
             THEN IF valueOffset = RangeError THEN Null
                  ELSE readExifDate(view, tiffOffset + valueOffset)
             ELSE ExifIfdLoop(view, ifdOffset, tiffOffset, littleEndian, entryCount,
                              i + 1)

parseDateFromExifIfd(view, ifdOffset, tiffOffset, littleEndian) ==
    LET entryCount == getUint16(view, ifdOffset, littleEndian) IN
    IF entryCount = RangeError THEN Null
    ELSE ExifIfdLoop(view, ifdOffset, tiffOffset, littleEndian, entryCount, 0)

-----------------------------------------------------------------------------
(* parseIfd0 *)

Ifd0Locals == [gpsIfdOffset |-> Null, dateTaken |-> Null, threw |-> FALSE]

\* One iteration of the first loop: the GPS pointer and the date tags.  A date
\* tag assigns whatever readExifDate returns, null included.
Ifd0Entry(view, entryOffset, tiffOffset, littleEndian, acc) ==
    LET tag == getUint16(view, entryOffset, littleEndian)
        value == getUint32(view, entryOffset + 8, littleEndian)
    IN  IF tag = RangeError THEN [acc EXCEPT !.threw = TRUE]
        ELSE IF tag = GPS_IFD_POINTER
        THEN IF value = RangeError THEN [acc EXCEPT !.threw = TRUE]
             ELSE [acc EXCEPT !.gpsIfdOffset = <<value>>]
        ELSE IF IsDateTag(tag)
        THEN IF value = RangeError THEN [acc EXCEPT !.threw = TRUE]
             ELSE [acc EXCEPT !.dateTaken = readExifDate(view, tiffOffset + value)]
        ELSE acc

RECURSIVE Ifd0Loop(_, _, _, _, _, _, _)
Ifd0Loop(view, ifdOffset, tiffOffset, littleEndian, entryCount, i, acc) ==
    IF i >= entryCount \/ acc.threw THEN acc
    ELSE Ifd0Loop(view, ifdOffset, tiffOffset, littleEndian, entryCount, i + 1,
                  Ifd0Entry(view, ifdOffset + 2 + i * 12, tiffOffset, littleEndian, acc))

\* if (exifDate && !dateTaken) dateTaken = exifDate
SubIfdDate(exifDate, dateTaken) ==
    IF exifDate # Null /\ dateTaken = Null THEN exifDate ELSE dateTaken

\* One iteration of the second loop: the EXIF sub-IFD pointer.
Ifd0ExifEntry(view, entryOffset, tiffOffset, littleEndian, acc) ==
    LET tag == getUint16(view, entryOffset, littleEndian)
        exifIfdOffset == getUint32(view, entryOffset + 8, littleEndian)
    IN  IF tag = RangeError THEN [acc EXCEPT !.threw = TRUE]
        ELSE IF tag = EXIF_IFD_POINTER
        THEN IF exifIfdOffset = RangeError THEN [acc EXCEPT !.threw = TRUE]
             ELSE [acc EXCEPT !.dateTaken =
                     SubIfdDate(parseDateFromExifIfd(view, tiffOffset + exifIfdOffset,
                                                     tiffOffset, littleEndian),
                                acc.dateTaken)]
        ELSE acc

RECURSIVE Ifd0ExifLoop(_, _, _, _, _, _, _)
Ifd0ExifLoop(view, ifdOffset, tiffOffset, littleEndian, entryCount, i, acc) ==
    IF i >= entryCount \/ acc.threw THEN acc
    ELSE Ifd0ExifLoop(view, ifdOffset, tiffOffset, littleEndian, entryCount, i + 1,
                      Ifd0ExifEntry(view, ifdOffset + 2 + i * 12, tiffOffset,
                                    littleEndian, acc))

\* { gpsIfdOffset, dateTaken }: the locals as they stand at the return, also
\* when the catch block was entered.
parseIfd0(view, ifdOffset, tiffOffset, littleEndian) ==
    LET entryCount == getUint16(view, ifdOffset, littleEndian) IN
    IF entryCount = RangeError THEN Ifd0Locals
    ELSE Ifd0ExifLoop(view, ifdOffset, tiffOffset, littleEndian, entryCount, 0,
                      Ifd0Loop(view, ifdOffset, tiffOffset, littleEndian, entryCount,
                               0, Ifd0Locals))

-----------------------------------------------------------------------------
(* parseExifData *)

AllAbsent == [latitude |-> Null, longitude |-> Null, bearing |-> Null,
              dateTaken |-> Null]

\* const littleEndian = byteOrder === 0x4949
IsLittleEndian(byteOrder) == byteOrder = BYTE_ORDER_II

\* if (gpsIfdOffset): null and 0 are both falsy.
HasGpsIfd(gpsIfdOffset) == gpsIfdOffset # Null /\ gpsIfdOffset # <<0>>

\* Object.assign(result, gpsData) after result.dateTaken was set.
AssignGps(dateTaken, gpsData) ==
    [latitude |-> gpsData.latitude, longitude |-> gpsData.longitude,
     bearing |-> gpsData.bearing, dateTaken |-> dateTaken]

\* The Partial<ExifData> of parseExifData; Null is a key that is not set.
\* maxLength is received and never read.
parseExifData(view, tiffOffset, maxLength) ==
    LET byteOrder == getUint16(view, tiffOffset, FALSE)
        littleEndian == IsLittleEndian(byteOrder)
        magic == getUint16(view, tiffOffset + 2, littleEndian)
        ifd0Offset == getUint32(view, tiffOffset + 4, littleEndian)
    IN  IF byteOrder = RangeError \/ magic = RangeError THEN AllAbsent
        ELSE IF magic # TIFF_MAGIC THEN AllAbsent
        ELSE IF ifd0Offset = RangeError THEN AllAbsent
        ELSE LET ifd0 == parseIfd0(view, tiffOffset + ifd0Offset, tiffOffset,
                                   littleEndian)
             IN  IF HasGpsIfd(ifd0.gpsIfdOffset)
                 THEN AssignGps(ifd0.dateTaken,
                                parseGpsIfd(view, tiffOffset + ifd0.gpsIfdOffset[1],
                                            tiffOffset, littleEndian))
                 ELSE [AllAbsent EXCEPT !.dateTaken = ifd0.dateTaken]

-----------------------------------------------------------------------------
(* extractExifData *)

\* The check that gates parsing: the type starts with 'image/jpeg' or the
\* lower-cased name ends with '.jpg'.
IsJpegFile(f) == StartsWith(f.type, ImageJpeg) \/ EndsWith(ToLowerCase(f.name), DotJpg)

\* { ...result, ...exifData }: the keys the parsed data holds replace those of
\* result.
MergeResult(res, parsed) ==
    [k \in DOMAIN res |-> IF parsed[k] # Null THEN parsed[k] ELSE res[k]]

\* (marker & 0xff00) === 0xff00
IsSegmentMarker(marker) == marker \div 256 = 255

\* Where the scan goes on after an APP1 segment whose header is not the EXIF
\* header: offset was advanced past the marker and the length only.
AfterOtherApp1(off, length) == off + 4

\* A skip that takes the length to count from before the marker.
AfterSegmentFromBefore(off, length) == off + length - 2

\* Where the scan goes on after a segment that is not APP1: offset, already past
\* the marker, is advanced by the segment length.
AfterSegment(off, length) == off + 2 + length

\* One iteration of the segment loop at offset off.  kind is "return" (with the
\* value returned), "continue" (with the next offset), "break" or "throw".
ScanIter(view, off) ==
    LET marker == getUint16(view, off, FALSE)
        length == getUint16(view, off + 2, FALSE)
        header == [i \in 1..6 |-> getUint8(view, off + 3 + i)]
        Throw == [kind |-> "throw", offset |-> off, value |-> AllAbsent]
    IN  IF marker = RangeError THEN Throw
        ELSE IF marker = EXIF_MARKER
        THEN IF length = RangeError \/ \E i \in 1..6 : header[i] = RangeError THEN Throw
             ELSE IF header = EXIF_HEADER
             THEN [kind |-> "return", offset |-> off + 4,
                   value |-> MergeResult(AllAbsent,
                                         parseExifData(view, off + 10, length - 8))]
             ELSE [kind |-> "continue", offset |-> AfterOtherApp1(off, length),
                   value |-> AllAbsent]
        ELSE IF IsSegmentMarker(marker)
        THEN IF length = RangeError THEN Throw
             ELSE [kind |-> "continue", offset |-> AfterSegment(off, length),
                   value |-> AllAbsent]
        ELSE [kind |-> "break", offset |-> off + 2, value |-> AllAbsent]

\* while (offset < buffer.byteLength - 4)
ScanGuard(view, off) == off < Len(view) - 4

\* The outcome of a step of extractExifData: where it stands, what it returns,
\* and whether an exception is propagating.
Outcome(p, off, res, ex, rd) ==
    [pc |-> p, offset |-> off, result |-> res, threw |-> ex, bufferRead |-> rd]

\* extractExifData without its try/catch: the exception propagates.
CatchExtractRethrow(o) == o

\* The catch block of extractExifData: the error is logged and the function
\* falls through to return the all-absent result.
CatchExtract(o) ==
    IF o.threw THEN Outcome("done", o.offset, AllAbsent, FALSE, o.bufferRead) ELSE o

\* A start that enters the segment loop whatever the first two bytes are.
StartOutcomeAnySoi(f) ==
    IF ~IsJpegFile(f) THEN Outcome("done", 0, AllAbsent, FALSE, FALSE)
    ELSE CatchExtract(
           IF ~f.readable THEN Outcome("start", 0, AllAbsent, TRUE, TRUE)
           ELSE Outcome("scan", 2, AllAbsent, FALSE, TRUE))

\* From the call to the first test of the loop condition.
StartOutcome(f) ==
    IF ~IsJpegFile(f) THEN Outcome("done", 0, AllAbsent, FALSE, FALSE)
    ELSE CatchExtract(
           IF ~f.readable THEN Outcome("start", 0, AllAbsent, TRUE, TRUE)
           ELSE LET soi == getUint16(f.bytes, 0, FALSE) IN
                IF soi = RangeError THEN Outcome("start", 0, AllAbsent, TRUE, TRUE)
                ELSE IF soi # JPEG_SOI THEN Outcome("done", 0, AllAbsent, FALSE, TRUE)
                ELSE Outcome("scan", 2, AllAbsent, FALSE, TRUE))

\* One iteration of the loop, inside the try block.
ScanOutcome(f, off) ==
    LET it == ScanIter(f.bytes, off) IN
    CatchExtract(
      CASE it.kind = "throw" -> Outcome("scan", off, AllAbsent, TRUE, TRUE)
        [] it.kind = "return" -> Outcome("done", it.offset, it.value, FALSE, TRUE)
        [] it.kind = "break" -> Outcome("done", it.offset, AllAbsent, FALSE, TRUE)
        [] it.kind = "continue" -> Outcome("scan", it.offset, AllAbsent, FALSE, TRUE))

-----------------------------------------------------------------------------
(* Crafted input files *)

\* The bounds of the inputs: the number of marker segments placed before the
\* EXIF segment, and the number of date entries placed in IFD0.
MaxPreSegments == 2
MaxDateEntries == 2

RECURSIVE Flatten(_)
Flatten(ss) == IF ss = <<>> THEN <<>> ELSE Head(ss) \o Flatten(Tail(ss))

U16(n, le) == IF le THEN <<n % 256, n \div 256>> ELSE <<n \div 256, n % 256>>

U32(n, le) ==
    IF le THEN <<n % 256, (n \div 256) % 256, (n \div 65536) % 256, n \div 16777216>>
    ELSE <<n \div 16777216, (n \div 65536) % 256, (n \div 256) % 256, n % 256>>

\* The data area of the TIFF block: date strings (19 characters and a zero
\* byte), then triples of rationals, then single rationals.
\*   1  2024:06:15 14:30:00      2  2023:12:31 23:59:59
\*   3  2024-06-15 14:30:00      4  2024:06:15 (cut short by a zero byte)
\*   5  43/1 39/1 499/100        6  79/1 20/1 4948/100
\*   7  200/1 0/1 0/1            8  10/0 30/1 0/1
\*   9  90/1    10  400/1    11  5/0    12  360/1
\*  13  2024:13:45 25:61:61 (the pattern's shape, no date of the calendar)
PoolItems ==
    << [chars |-> <<50,48,50,52,58,48,54,58,49,53,32,49,52,58,51,48,58,48,48,0>>,
        rats |-> <<>>],
       [chars |-> <<50,48,50,51,58,49,50,58,51,49,32,50,51,58,53,57,58,53,57,0>>,
        rats |-> <<>>],
       [chars |-> <<50,48,50,52,45,48,54,45,49,53,32,49,52,58,51,48,58,48,48,0>>,
        rats |-> <<>>],
       [chars |-> <<50,48,50,52,58,48,54,58,49,53,0,0,0,0,0,0,0,0,0,0>>,
        rats |-> <<>>],
       [chars |-> <<>>, rats |-> << <<43, 1>>, <<39, 1>>, <<499, 100>> >>],
       [chars |-> <<>>, rats |-> << <<79, 1>>, <<20, 1>>, <<4948, 100>> >>],
       [chars |-> <<>>, rats |-> << <<200, 1>>, <<0, 1>>, <<0, 1>> >>],
       [chars |-> <<>>, rats |-> << <<10, 0>>, <<30, 1>>, <<0, 1>> >>],
       [chars |-> <<>>, rats |-> << <<90, 1>> >>],
       [chars |-> <<>>, rats |-> << <<400, 1>> >>],
       [chars |-> <<>>, rats |-> << <<5, 0>> >>],
       [chars |-> <<>>, rats |-> << <<360, 1>> >> ],
       [chars |-> <<50,48,50,52,58,49,51,58,52,53,32,50,53,58,54,49,58,54,49,0>>,
        rats |-> <<>>] >>

PoolItemBytes(item, le) ==
    item.chars \o Flatten([i \in 1..Len(item.rats) |->
                             U32(item.rats[i][1], le) \o U32(item.rats[i][2], le)])

PoolItemSize(item) == Len(item.chars) + 8 * Len(item.rats)

RECURSIVE PoolOffset(_)
PoolOffset(k) == IF k <= 1 THEN 0 ELSE PoolOffset(k - 1) + PoolItemSize(PoolItems[k - 1])

PoolBytes(le) == Flatten([k \in 1..Len(PoolItems) |-> PoolItemBytes(PoolItems[k], le)])

\* An offset no buffer of the model reaches.
FarOffset == 4096

\* IFD entries.  k says how the four value bytes are filled: "imm" the number
\* a, "chr" the character a and three zero bytes, "pool" the offset of data
\* item a, "gps" and "sub" the offsets of the GPS IFD and the EXIF sub-IFD.
Entry(tag, type, count, k, a) ==
    [tag |-> tag, type |-> type, count |-> count, k |-> k, a |-> a]

GpsPtr == Entry(34853, 4, 1, "gps", 0)
GpsPtrFar == Entry(34853, 4, 1, "imm", FarOffset)
ExifPtr == Entry(34665, 4, 1, "sub", 0)
Make == Entry(271, 2, 2, "chr", 65)
DateOrig(p) == Entry(36867, 2, 20, "pool", p)
DateDig(p) == Entry(36868, 2, 20, "pool", p)
DateFar == Entry(36867, 2, 20, "imm", FarOffset)
LatRef(c) == Entry(1, 2, 2, "chr", c)
LngRef(c) == Entry(3, 2, 2, "chr", c)
Lat(p) == Entry(2, 5, 3, "pool", p)
Lng(p) == Entry(4, 5, 3, "pool", p)
LatSigned(p) == Entry(2, 10, 3, "pool", p)
LatFar == Entry(2, 5, 3, "imm", FarOffset)
LngFar == Entry(4, 5, 3, "imm", FarOffset)
Dir(p) == Entry(17, 5, 1, "pool", p)
DirFar == Entry(17, 5, 1, "imm", FarOffset)

IfdSize(entries) == 2 + 12 * Len(entries) + 4

\* The layout of the TIFF block: header, IFD0, EXIF sub-IFD, GPS IFD, data.
SubStart(d) == 8 + IfdSize(d.ifd0)
GpsStart(d) == SubStart(d) + IfdSize(d.sub)
PoolStart(d) == GpsStart(d) + IfdSize(d.gps)

OrderLE(order) == order = "II" \/ order = "XI"

OrderBytes(order) ==
    CASE order = "II" -> <<73, 73>>
      [] order = "MM" -> <<77, 77>>
      [] order = "XX" -> <<88, 88>>
      [] order = "XI" -> <<88, 88>>
      [] order = "00" -> <<0, 0>>

EntryValue(d, e) ==
    CASE e.k = "imm" -> U32(e.a, OrderLE(d.order))
      [] e.k = "chr" -> <<e.a, 0, 0, 0>>
      [] e.k = "pool" -> U32(PoolStart(d) + PoolOffset(e.a), OrderLE(d.order))
      [] e.k = "gps" -> U32(GpsStart(d), OrderLE(d.order))
      [] e.k = "sub" -> U32(SubStart(d), OrderLE(d.order))

EntryBytes(d, e) ==
    U16(e.tag, OrderLE(d.order)) \o U16(e.type, OrderLE(d.order))
    \o U32(e.count, OrderLE(d.order)) \o EntryValue(d, e)

\* An IFD declaring extra entries more than it holds.
IfdBytes(d, entries, extra) ==
    U16(Len(entries) + extra, OrderLE(d.order))
    \o Flatten([i \in 1..Len(entries) |-> EntryBytes(d, entries[i])])
    \o U32(0, OrderLE(d.order))

TiffBytes(d) ==
    OrderBytes(d.order) \o U16(d.magic, OrderLE(d.order))
    \o U32(d.ifd0ptr, OrderLE(d.order))
    \o IfdBytes(d, d.ifd0, 0) \o IfdBytes(d, d.sub, 0) \o IfdBytes(d, d.gps, d.extra)
    \o PoolBytes(OrderLE(d.order))

\* The bytes after the APP1 length: the EXIF header, 'Exif\0\1', 'http:/', or
\* ("nested") the six bytes FF E1 00 08 'E' 'x', which with the four bytes
\* after them read as an APP1 marker, a length and the EXIF header.
HeaderBytes(hdr) ==
    CASE hdr = "ok" -> EXIF_HEADER
      [] hdr = "exif01" -> <<69, 120, 105, 102, 0, 1>>
      [] hdr = "http" -> <<104, 116, 116, 112, 58, 47>>
      [] hdr = "nested" -> <<255, 225, 0, 8>> \o EXIF_HEADER

\* Marker segments placed before the EXIF segment: a JFIF APP0 segment, an
\* APP1 segment that is not EXIF (an XMP packet), an APP1 segment whose payload
\* begins with the bytes of a marker segment, a DQT segment of declared length
\* 0, and two bytes that are no marker.
PreSegmentBytes(kind) ==
    CASE kind = "app0" -> <<255, 224, 0, 4, 74, 70>>
      [] kind = "xmp" -> <<255, 225, 0, 8, 104, 116, 116, 112, 58, 47>>
      [] kind = "app1ff" -> <<255, 225, 0, 8, 255, 224, 0, 4, 74, 70>>
      [] kind = "zero" -> <<255, 219, 0, 0>>
      [] kind = "junk" -> <<18, 52>>

PreSegmentKinds == {"app0", "xmp", "app1ff", "zero", "junk"}

SoiBytes(soi) == IF soi THEN <<255, 216>> ELSE <<137, 80>>

\* The declared length leaves out the last d.short bytes of the TIFF block,
\* which then follow the segment in the file.
App1Bytes(d) ==
    <<255, 225>> \o U16(2 + Len(HeaderBytes(d.hdr)) + Len(TiffBytes(d)) - d.short, FALSE)
    \o HeaderBytes(d.hdr)
    \o TiffBytes(d)

\* The whole file, an end-of-image marker after the EXIF segment.
FullBytes(d) ==
    SoiBytes(d.soi) \o Flatten([i \in 1..Len(d.pre) |-> PreSegmentBytes(d.pre[i])])
    \o App1Bytes(d) \o <<255, 217>>

\* The file with its last d.cut bytes missing.
FileBytes(d) ==
    LET all == FullBytes(d) IN
    SubSeq(all, 1, IF d.cut >= Len(all) THEN 0 ELSE Len(all) - d.cut)

\* Offset of the TIFF header in the full file.
TiffStart(d) ==
    2 + Len(Flatten([i \in 1..Len(d.pre) |-> PreSegmentBytes(d.pre[i])])) + 4
    + Len(HeaderBytes(d.hdr))

MakeFile(d) ==
    [type |-> d.type, name |-> d.name, readable |-> d.readable, bytes |-> FileBytes(d)]

-----------------------------------------------------------------------------
(* The set of input files *)

TypePng == <<105, 109, 97, 103, 101, 47, 112, 110, 103>>
NameJpg == <<97, 46, 106, 112, 103>>
NameJpgUpper == <<65, 46, 74, 80, 71>>
NameJpeg == <<97, 46, 106, 112, 101, 103>>
NameJpegUpper == <<65, 46, 74, 80, 69, 71>>
NamePng == <<97, 46, 112, 110, 103>>

SeqsUpTo(S, n) == UNION {[1..k -> S] : k \in 0..n}

\* The file of the specification's example: 43 39' 4.99" N, 79 20' 49.48" W,
\* DateTimeOriginal 2024:06:15 14:30:00.
BaseDesc ==
    [type |-> ImageJpeg, name |-> NameJpg, readable |-> TRUE, soi |-> TRUE,
     pre |-> <<>>, hdr |-> "ok", order |-> "II", magic |-> TIFF_MAGIC, ifd0ptr |-> 8,
     ifd0 |-> <<GpsPtr, DateOrig(1)>>, sub |-> <<>>,
     gps |-> <<LatRef(78), Lat(5), LngRef(87), Lng(6)>>, extra |-> 0, cut |-> 0,
     short |-> 0]

\* Declared types and names, on a readable or unreadable file.
GateInputs ==
    {[BaseDesc EXCEPT !.type = t, !.name = n, !.readable = r] :
       t \in {ImageJpeg, TypePng, <<>>},
       n \in {NameJpg, NameJpgUpper, NameJpeg, NameJpegUpper, NamePng},
       r \in BOOLEAN}

\* The container: the first two bytes, the segments before the EXIF segment,
\* and the header of the EXIF segment.
ContainerInputs ==
    {[BaseDesc EXCEPT !.soi = s, !.pre = p, !.hdr = h, !.order = o] :
       s \in BOOLEAN, p \in SeqsUpTo(PreSegmentKinds, MaxPreSegments),
       h \in {"ok", "exif01", "http", "nested"}, o \in {"II", "MM"}}

\* The TIFF header: byte-order mark, magic number, IFD0 offset, and IFDs that
\* point or count beyond the buffer.
TiffInputs ==
    {[BaseDesc EXCEPT !.order = o, !.magic = m, !.ifd0ptr = p, !.extra = x,
                      !.ifd0 = i] :
       o \in {"II", "MM", "XX", "XI", "00"}, m \in {TIFF_MAGIC, 43, 10752},
       p \in {8, FarOffset}, x \in {0, 300},
       i \in {<<GpsPtr, DateOrig(1)>>, <<GpsPtrFar, DateOrig(1)>>, <<DateOrig(1)>>}}

\* Date entries in IFD0 and in the EXIF sub-IFD.
DateEntryKinds == {DateOrig(1), DateDig(2), DateOrig(3), DateOrig(4), DateFar}

SubIfdKinds ==
    {<<>>, <<DateOrig(2)>>, <<DateDig(1)>>, <<DateDig(1), DateOrig(2)>>,
     <<Make, DateOrig(2)>>, <<DateOrig(3), DateOrig(1)>>, <<DateFar>>}

DateInputs ==
    {[BaseDesc EXCEPT !.order = o, !.ifd0 = <<GpsPtr>> \o ds \o x, !.sub = sb] :
       o \in {"II", "MM"}, ds \in SeqsUpTo(DateEntryKinds, MaxDateEntries),
       x \in {<<>>, <<ExifPtr>>}, sb \in SubIfdKinds}

\* The GPS IFD: each of the five fields absent, well formed or malformed, the
\* direction entries before or after the coordinates.
DirKinds ==
    {<<>>, <<Dir(9)>>, <<Dir(10)>>, <<Dir(11)>>, <<Dir(12)>>, <<DirFar>>,
     <<Dir(9), Dir(10)>>, <<Dir(10), Dir(9)>>}

GpsInputs ==
    {[BaseDesc EXCEPT !.order = o,
                      !.gps = IF first THEN dr \o lr \o la \o gr \o lo
                              ELSE lr \o la \o gr \o lo \o dr] :
       o \in {"II", "MM"}, first \in BOOLEAN, dr \in DirKinds,
       lr \in {<<>>, <<LatRef(78)>>, <<LatRef(83)>>},
       la \in {<<>>, <<Lat(5)>>, <<Lat(7)>>, <<Lat(8)>>, <<LatSigned(5)>>, <<LatFar>>},
       gr \in {<<>>, <<LngRef(69)>>, <<LngRef(87)>>},
       lo \in {<<>>, <<Lng(6)>>, <<Lng(7)>>, <<LngFar>>}}

\* A well-formed file with a date in the EXIF sub-IFD and a direction, cut
\* short at every length.
CutBase ==
    [BaseDesc EXCEPT !.ifd0 = <<GpsPtr, ExifPtr>>, !.sub = <<DateOrig(1)>>,
                     !.gps = <<LatRef(78), Lat(5), LngRef(87), Lng(6), Dir(9)>>]

CutInputs ==
    {[CutBase EXCEPT !.order = o, !.cut = c] :
       o \in {"II", "MM"}, c \in 0..Len(FullBytes(CutBase))}

\* A date string of the pattern's shape that names no instant, in IFD0 or
\* in the EXIF sub-IFD.
RangeDateInputs ==
    {[BaseDesc EXCEPT !.order = o, !.ifd0 = i, !.sub = sb] :
       o \in {"II", "MM"},
       i \in {<<GpsPtr, DateOrig(13)>>, <<GpsPtr, ExifPtr>>, <<GpsPtr, DateOrig(1), ExifPtr>>},
       sb \in {<<>>, <<DateOrig(13)>>, <<DateDig(13)>>}}

\* A GPS IFD that cannot be read, or whose entries point beyond the buffer,
\* in a file whose date is in IFD0 or in the EXIF sub-IFD.
CorruptGpsInputs ==
    {[BaseDesc EXCEPT !.order = o, !.ifd0 = i, !.sub = <<DateOrig(2)>>, !.gps = g] :
       o \in {"II", "MM"},
       i \in {<<GpsPtr, ExifPtr>>, <<GpsPtrFar, ExifPtr>>, <<ExifPtr, GpsPtrFar>>,
              <<GpsPtr, DateDig(1)>>, <<DateOrig(1), GpsPtrFar>>},
       g \in {<<LatRef(78), LatFar, LngRef(87), Lng(6)>>,
              <<LatRef(78), Lat(5), LngRef(87), LngFar>>,
              <<Dir(9), LatRef(78), LatFar>>, <<LatRef(78), LatFar, Dir(9)>>,
              <<Dir(9), Dir(11), LngFar>>, <<LatRef(78), Lat(5), LngRef(87), Lng(6), DirFar>>,
              <<Dir(12), DirFar>>}}

\* A direction entry of type SHORT, which parseGpsIfd passes over.
DirShort == Entry(17, 3, 1, "imm", 45)

\* Several date entries in IFD0 and several direction entries in the GPS
\* IFD, every value inside the buffer.
TieInputs ==
    {[BaseDesc EXCEPT !.order = o, !.ifd0 = <<GpsPtr, DateOrig(1), DateDig(2)>>,
                      !.gps = g] :
       o \in {"II", "MM"},
       g \in {<<Dir(9), Dir(11)>>, <<Dir(11), Dir(9)>>, <<Dir(9), DirShort>>,
              <<Dir(11), Dir(11)>>, <<Dir(9), LatRef(78), Dir(12), Dir(11)>>}}

\* An EXIF segment whose declared length ends before the last data item,
\* before the data items, or before the GPS IFD, the rest of the TIFF block
\* following the segment in the file.
ShortInputs ==
    {[CutBase EXCEPT !.order = o, !.short = s] :
       o \in {"II", "MM"},
       s \in {1, Len(PoolBytes(TRUE)),
              Len(PoolBytes(TRUE)) + IfdSize(CutBase.gps)}}

Inputs ==
    ShortInputs \cup GateInputs \cup ContainerInputs \cup TiffInputs \cup DateInputs \cup GpsInputs
    \cup CutInputs \cup RangeDateInputs \cup CorruptGpsInputs \cup TieInputs

-----------------------------------------------------------------------------
(* The uploader's state *)

\* No File.
NoFile == [origin |-> 0, content |-> "none", name |-> <<>>, type |-> <<>>]

\* The promise of stripExifData before the call.  calls counts the calls of
\* resolve and reject; path is what the browser did (the image loaded or not,
\* the canvas gave a context or not, the encoder gave a blob or not).
StripIdle ==
    [state |-> "idle", calls |-> 0, value |-> NoFile, error |-> "", path |-> "",
     urlOpen |-> FALSE]

UploaderIdle ==
    /\ selected = <<>>
    /\ files = <<>>
    /\ upc = "idle"
    /\ idx = 0
    /\ exifData = AllAbsent
    /\ strippedFile = NoFile
    /\ strip = StripIdle
    /\ uploadedFiles = <<>>
    /\ uploadError = ""
    /\ hpc = "idle"
    /\ hidx = 0
    /\ handed = <<>>
    /\ posted = <<>>
    /\ events = <<>>

\* No photo stored, no edit in progress.
StoreIdle ==
    /\ photos = <<>>
    /\ editingPhotoId = 0
    /\ editBearing = <<>>

\* No call of readExifDate on its own.
DateIdle ==
    /\ dateView = <<>>
    /\ dateOffset = 0
    /\ dateReturn = [returned |-> FALSE, value |-> <<>>]

\* No function called on its own.
NoCall == [fn |-> "", args |-> <<>>, returned |-> FALSE, value |-> <<>>]

CallIdle == call = NoCall

NoReply == [op |-> "", user |-> 0, id |-> 0, error |-> "", removed |-> TRUE]

ServiceIdle == table = {} /\ bucket = {} /\ reply = NoReply

\* The photos handed to PhotoMap: photos 1 and 2 are the current user's,
\* photo 3 is another user's; each has coordinates.
MapPhotos ==
    << [mine |-> TRUE, coords |-> <<10, 10>>, bearing |-> <<90, 1>>],
       [mine |-> TRUE, coords |-> <<20, 20>>, bearing |-> Null],
       [mine |-> FALSE, coords |-> <<30, 30>>, bearing |-> Null] >>

\* PhotoMap after onMount: no edit, a marker at each photo's coordinates.
NoEdit ==
    [editingPhotoId |-> 0, editPosition |-> Null, editBearing |-> Null,
     directionLine |-> FALSE, directionHandle |-> FALSE,
     stored |-> [i \in 1..3 |-> MapPhotos[i].coords],
     markers |-> [i \in 1..3 |-> [latlng |-> MapPhotos[i].coords, drag |-> FALSE]],
     via |-> ""]

MapIdle == photoMap = NoEdit

\* No call of extractExifData in progress.
ExifIdle ==
    /\ desc = BaseDesc
    /\ file = MakeFile(BaseDesc)
    /\ pc = "done"
    /\ offset = 0
    /\ result = AllAbsent
    /\ threw = FALSE
    /\ bufferRead = FALSE

-----------------------------------------------------------------------------
(* extractExifData, step by step *)

ExifInit ==
    /\ desc \in Inputs
    /\ file = MakeFile(desc)
    /\ pc = "start"
    /\ offset = 0
    /\ result = AllAbsent
    /\ threw = FALSE
    /\ bufferRead = FALSE
    /\ UploaderIdle
    /\ StoreIdle
    /\ DateIdle
    /\ CallIdle
    /\ ServiceIdle
    /\ MapIdle

Apply(o) ==
    /\ pc' = o.pc
    /\ offset' = o.offset
    /\ result' = o.result
    /\ threw' = o.threw
    /\ bufferRead' = o.bufferRead
    /\ UNCHANGED <<desc, file>>
    /\ UNCHANGED <<uploadVars, storeVars, dateVars, callVars, serviceVars, mapVars>>

\* The call: the type check, the buffer read and the start-of-image check.
Start ==
    /\ pc = "start"
    /\ ~threw
    /\ Apply(StartOutcome(file))

\* One iteration of the segment loop.
ScanStep ==
    /\ pc = "scan"
    /\ ~threw
    /\ ScanGuard(file.bytes, offset)
    /\ Apply(ScanOutcome(file, offset))

\* The loop condition fails: the all-absent result is returned.
ScanExit ==
    /\ pc = "scan"
    /\ ~threw
    /\ ~ScanGuard(file.bytes, offset)
    /\ Apply(Outcome("done", offset, AllAbsent, FALSE, TRUE))

\* extractExifData, step by step.
extractExifData == Start \/ ScanStep \/ ScanExit

Next == extractExifData

vars == <<exifVars, uploadVars, storeVars, dateVars, callVars, serviceVars, mapVars>>

Spec == ExifInit /\ [][Next]_vars

-----------------------------------------------------------------------------
(* Properties of extractExifData *)

Done == pc = "done"

HasTag(entries, tag) == \E i \in 1..Len(entries) : entries[i].tag = tag

\* A field of the result is absent, or what the extractor makes of a read:
\* an exact quotient with a positive denominator; a date of 20 characters.
IsAbsentOrNumber(v) == v = Null \/ (Len(v) = 2 /\ v[2] > 0)
IsAbsentOrDate(v) == v = Null \/ Len(v) = 20

\* C1: extractExifData is total.  No exception leaves it on any input (any
\* declared type or name, an unreadable, empty or truncated buffer, offsets and
\* entry counts beyond the buffer); until it has returned it stands at the
\* call or in the segment loop, where a step is possible; and what it returns
\* is a record of the four fields latitude, longitude, bearing and dateTaken,
\* each absent or a value.
C1_ExtractIsTotal ==
    /\ ~threw
    /\ pc \in {"start", "scan", "done"}
    /\ Done => /\ DOMAIN result = {"latitude", "longitude", "bearing", "dateTaken"}
               /\ IsAbsentOrNumber(result.latitude)
               /\ IsAbsentOrNumber(result.longitude)
               /\ IsAbsentOrNumber(result.bearing)
               /\ IsAbsentOrDate(result.dateTaken)

\* A buffer too short for the start-of-image read: the read failed, and the
\* call returned the all-absent record.
C1_Witness ==
    Done /\ bufferRead /\ Len(file.bytes) < 2 /\ ~threw /\ result = AllAbsent

\* C2: in every result latitude and longitude are both present or both
\* absent.
C2_LatLngJoint == Done => ((result.latitude = Null) <=> (result.longitude = Null))

\* C5: in every result the bearing, when present, is at least 0 and less
\* than 360.
C5_BearingInRange ==
    (Done /\ result.bearing # Null)
        => RatGeInt(result.bearing, 0) /\ RatLtInt(result.bearing, 360)

\* C6: in every result the latitude, when present, lies in [-90, 90] and the
\* longitude, when present, lies in [-180, 180].
C6_CoordinatesInRange ==
    Done => /\ result.latitude # Null =>
                 RatGeInt(result.latitude, -90) /\ RatLeInt(result.latitude, 90)
            /\ result.longitude # Null =>
                 RatGeInt(result.longitude, -180) /\ RatLeInt(result.longitude, 180)

\* The files the specification says are parsed: MIME type image/jpeg, or a
\* name ending in .jpg or .jpeg whatever the case of its letters.
DotJpeg == <<46, 106, 112, 101, 103>>
DeclaredJpeg(f) ==
    \/ f.type = ImageJpeg
    \/ EndsWith(ToLowerCase(f.name), DotJpg)
    \/ EndsWith(ToLowerCase(f.name), DotJpeg)

\* C7: the buffer of a file is read exactly when the file is declared a JPEG
\* (by type, or by a name ending in .jpg or .jpeg); every other file gets the
\* all-absent result.
C7_ParsesExactlyDeclaredJpeg ==
    Done => /\ bufferRead <=> DeclaredJpeg(file)
            /\ ~DeclaredJpeg(file) => result = AllAbsent

\* The only entry of the IFD with the tag.
TheEntry(entries, tag) == entries[CHOOSE i \in 1..Len(entries) : entries[i].tag = tag]
CountTag(entries, tag) == Cardinality({i \in 1..Len(entries) : entries[i].tag = tag})

\* degrees + minutes/60 + seconds/3600 of three stored rationals, negated
\* for the references S and W, written out over the common denominator.
StoredDecimal(r, ref) ==
    LET n == r[1][1] * r[2][2] * r[3][2] * 3600 + r[2][1] * r[1][2] * r[3][2] * 60
             + r[3][1] * r[1][2] * r[2][2]
        q == Ratio(n, r[1][2] * r[2][2] * r[3][2] * 3600)
    IN  IF ref \in {83, 87} THEN <<0 - q[1], q[2]>> ELSE q

\* 'YYYY:MM:DD HH:MM:SS' rewritten as 'YYYY-MM-DDTHH:MM:SSZ'.
StoredDate(chars) ==
    [i \in 1..20 |-> IF i \in {5, 8} THEN 45
                     ELSE IF i = 11 THEN 84
                     ELSE IF i = 20 THEN 90
                     ELSE chars[i]]

\* The file is a complete JPEG whose EXIF segment has a valid TIFF header of
\* either byte order, one GPS pointer, the four coordinate entries with valid
\* references and non-zero denominators, and a single date tag, a
\* DateTimeOriginal holding a date string, in IFD0 or in the EXIF sub-IFD.
\* Other marker segments may come before the EXIF segment.
WellFormedExif(d) ==
    /\ DeclaredJpeg(MakeFile(d)) /\ IsJpegFile(MakeFile(d)) /\ d.readable
    /\ d.soi /\ d.cut = 0 /\ d.extra = 0 /\ d.hdr = "ok" /\ d.short = 0
    /\ \A i \in 1..Len(d.pre) : d.pre[i] \in {"app0", "xmp", "app1ff"}
    /\ d.order \in {"II", "MM"} /\ d.magic = TIFF_MAGIC /\ d.ifd0ptr = 8
    /\ CountTag(d.ifd0, GPS_IFD_POINTER) = 1
    /\ TheEntry(d.ifd0, GPS_IFD_POINTER).k = "gps"
    /\ Len(d.gps) = 4
    /\ \A t \in {1, 2, 3, 4} : CountTag(d.gps, t) = 1
    /\ TheEntry(d.gps, 1).a \in {78, 83}
    /\ TheEntry(d.gps, 3).a \in {69, 87}
    /\ \A t \in {2, 4} : /\ TheEntry(d.gps, t).type = 5
                         /\ TheEntry(d.gps, t).k = "pool"
                         /\ TheEntry(d.gps, t).a \in {5, 6, 7}
    /\ \/ /\ d.ifd0 = <<GpsPtr, DateOrig(1)>> \/ d.ifd0 = <<GpsPtr, DateOrig(2)>>
          /\ d.sub = <<>>
       \/ /\ d.ifd0 = <<GpsPtr, ExifPtr>>
          /\ d.sub = <<DateOrig(1)>> \/ d.sub = <<DateOrig(2)>>

StoredDateEntry(d) ==
    IF HasTag(d.ifd0, DATE_TIME_ORIGINAL) THEN TheEntry(d.ifd0, DATE_TIME_ORIGINAL)
    ELSE TheEntry(d.sub, DATE_TIME_ORIGINAL)

\* What the specification says is extracted from a well-formed file.
StoredResult(d) ==
    [latitude |-> StoredDecimal(PoolItems[TheEntry(d.gps, 2).a].rats,
                                TheEntry(d.gps, 1).a),
     longitude |-> StoredDecimal(PoolItems[TheEntry(d.gps, 4).a].rats,
                                 TheEntry(d.gps, 3).a),
     bearing |-> Null,
     dateTaken |-> StoredDate(PoolItems[StoredDateEntry(d).a].chars)]

\* C8: from every JPEG buffer with a well-formed EXIF segment the result
\* holds the stored coordinates as degrees + minutes/60 + seconds/3600,
\* negated for S and W, and the stored date rewritten in ISO form.
C8_WellFormedFileIsDecoded ==
    (Done /\ WellFormedExif(desc)) => result = StoredResult(desc)

\* C9: when an APP1 segment that is not EXIF comes before the EXIF segment,
\* the scan goes on to the segments after it, and the EXIF segment is
\* located and parsed.
C9_ScanContinuesPastOtherApp1 ==
    (Done /\ WellFormedExif(desc)
          /\ \E i \in 1..Len(desc.pre) : desc.pre[i] \in {"xmp", "app1ff"})
        => result = StoredResult(desc)

\* C10: when the two bytes at the start of the TIFF header are neither 'II'
\* nor 'MM', the result is all-absent.
C10_UnknownByteOrderFails ==
    (Done /\ getUint16(FullBytes(desc), TiffStart(desc), FALSE) \notin {18761, 19789})
        => result = AllAbsent

-----------------------------------------------------------------------------
(* Failures and the fields they reach *)

\* The file is a complete JPEG, declared as one, whose only segment before
\* the end is the EXIF segment with a valid TIFF header and IFD0 at offset 8.
ReachesIfd0(d) ==
    /\ IsJpegFile(MakeFile(d)) /\ d.readable /\ d.soi /\ d.cut = 0
    /\ d.pre = <<>> /\ d.hdr = "ok"
    /\ d.order \in {"II", "MM"} /\ d.magic = TIFF_MAGIC /\ d.ifd0ptr = 8

IsFar(e) == e.k = "imm" /\ e.a = FarOffset

FarEntries(entries) == {i \in 1..Len(entries) : IsFar(entries[i])}

\* The GPS IFD is corrupt: IFD0 points to it beyond the buffer, or one of its
\* entries holds a value offset beyond the buffer, or it declares more
\* entries than the buffer holds.
GpsCorrupt(d) ==
    /\ CountTag(d.ifd0, GPS_IFD_POINTER) = 1
    /\ \/ IsFar(TheEntry(d.ifd0, GPS_IFD_POINTER))
       \/ /\ TheEntry(d.ifd0, GPS_IFD_POINTER).k = "gps"
          /\ FarEntries(d.gps) # {} \/ d.extra > 0

\* The entries that name a date and hold a date string of the calendar.
IsGoodDate(e) == IsDateTag(e.tag) /\ e.k = "pool" /\ e.a \in {1, 2}

DateEntries(entries) == {i \in 1..Len(entries) : IsDateTag(entries[i].tag)}

\* The one well-formed date of the file: the only date entry of IFD0, or,
\* with no date entry in IFD0, the first date entry of the EXIF sub-IFD.
HasOneGoodDate(d) ==
    \/ /\ Cardinality(DateEntries(d.ifd0)) = 1
       /\ \A i \in DateEntries(d.ifd0) : IsGoodDate(d.ifd0[i])
    \/ /\ DateEntries(d.ifd0) = {}
       /\ CountTag(d.ifd0, EXIF_IFD_POINTER) = 1
       /\ DateEntries(d.sub) # {}
       /\ \A i \in DateEntries(d.sub) :
            (\A j \in DateEntries(d.sub) : i <= j) => IsGoodDate(d.sub[i])

TheGoodDate(d) ==
    LET es == IF DateEntries(d.ifd0) # {} THEN d.ifd0 ELSE d.sub
        i == CHOOSE i \in DateEntries(es) : \A j \in DateEntries(es) : i <= j
    IN  StoredDate(PoolItems[es[i].a].chars)

\* The image direction decoded before the first read out of range: the last
\* direction entry with a non-zero denominator that comes before the first
\* entry pointing beyond the buffer.  Null when there is none.
BearingBeforeFailure(d) ==
    LET stop == IF IsFar(TheEntry(d.ifd0, GPS_IFD_POINTER)) THEN 0
                ELSE IF FarEntries(d.gps) = {} THEN Len(d.gps) + 1
                ELSE CHOOSE i \in FarEntries(d.gps) : \A j \in FarEntries(d.gps) : i <= j
        dirs == {i \in 1..Len(d.gps) :
                   /\ i < stop
                   /\ d.gps[i].tag = GPS_IMG_DIRECTION /\ d.gps[i].type = 5
                   /\ d.gps[i].k = "pool"
                   /\ PoolItems[d.gps[i].a].rats[1][2] # 0}
    IN  IF dirs = {} THEN Null
        ELSE LET i == CHOOSE i \in dirs : \A j \in dirs : j <= i
             IN  Ratio(PoolItems[d.gps[i].a].rats[1][1], PoolItems[d.gps[i].a].rats[1][2])

CorruptGpsWithDate == Done /\ ReachesIfd0(desc) /\ GpsCorrupt(desc) /\ HasOneGoodDate(desc)

\* C11, as stated: when the GPS IFD is corrupt and a well-formed date tag
\* exists in IFD0 or in the EXIF sub-IFD, the result holds that date and
\* latitude, longitude and bearing are absent.
C11_AsStated ==
    CorruptGpsWithDate =>
        /\ result.dateTaken = TheGoodDate(desc)
        /\ result.latitude = Null /\ result.longitude = Null /\ result.bearing = Null

\* C11, amended: when the GPS IFD is corrupt and a well-formed date tag
\* exists in IFD0 or in the EXIF sub-IFD, the result holds that date, latitude
\* and longitude are absent, and bearing is absent unless an image-direction
\* entry was decoded before the first read out of range, in which case it is
\* that direction.
C11_CorruptGpsKeepsDate ==
    CorruptGpsWithDate =>
        /\ result.dateTaken = TheGoodDate(desc)
        /\ result.latitude = Null /\ result.longitude = Null
        /\ result.bearing = BearingBeforeFailure(desc)

\* A direction entry, then a latitude entry pointing beyond the buffer: the
\* date and the direction are returned, no coordinates.
C11_Witness ==
    /\ CorruptGpsWithDate
    /\ FarEntries(desc.gps) # {}
    /\ result.dateTaken # Null
    /\ result.bearing # Null
    /\ result.latitude = Null

\* The well-formed direction entries of a GPS IFD: type 5, a value in the
\* buffer, a non-zero denominator.
GoodDirs(entries) ==
    {i \in 1..Len(entries) :
       /\ entries[i].tag = GPS_IMG_DIRECTION /\ entries[i].type = 5
       /\ entries[i].k = "pool"
       /\ PoolItems[entries[i].a].rats[1][2] # 0}

DirValue(e) == Ratio(PoolItems[e.a].rats[1][1], PoolItems[e.a].rats[1][2])

\* The GPS IFD is read, and its only fault is a latitude entry whose value
\* offset is beyond the buffer; it holds a well-formed direction entry.
BadLatitudeGoodDirection(d) ==
    /\ ReachesIfd0(d) /\ d.extra = 0
    /\ CountTag(d.ifd0, GPS_IFD_POINTER) = 1
    /\ TheEntry(d.ifd0, GPS_IFD_POINTER).k = "gps"
    /\ FarEntries(d.gps) # {}
    /\ \A i \in FarEntries(d.gps) : d.gps[i].tag = GPS_LATITUDE
    /\ GoodDirs(d.gps) # {}

\* C12: when the latitude entry's value offset is outside the buffer and the
\* same GPS IFD holds a well-formed image-direction entry, the bearing of
\* that entry is returned, wherever in the IFD the direction entry stands.
C12_BearingSurvivesBadLatitude ==
    (Done /\ BadLatitudeGoodDirection(desc)) =>
        \E i \in GoodDirs(desc.gps) : result.bearing = DirValue(desc.gps[i])

\* The good and the malformed date entries of an IFD: a malformed one holds a
\* string that does not match the date pattern, or a value offset beyond the
\* buffer.
GoodDates(entries) == {i \in 1..Len(entries) : IsGoodDate(entries[i])}

MalformedDates(entries) ==
    {i \in 1..Len(entries) :
       /\ IsDateTag(entries[i].tag)
       /\ \/ IsFar(entries[i])
          \/ entries[i].k = "pool" /\ entries[i].a \in {3, 4}}

DatesOf(entries, is) == {StoredDate(PoolItems[entries[i].a].chars) : i \in is}

\* C13: a malformed date entry in IFD0 is skipped: the walk goes on after it
\* (the GPS pointer and the dates of later entries are still found) and the
\* date reported is one captured from the other date entries of IFD0.
C13_MalformedDateIsSkipped ==
    (Done /\ ReachesIfd0(desc)
          /\ MalformedDates(desc.ifd0) # {} /\ GoodDates(desc.ifd0) # {}
          /\ DateEntries(desc.ifd0) = MalformedDates(desc.ifd0) \cup GoodDates(desc.ifd0))
        => result.dateTaken \in DatesOf(desc.ifd0, GoodDates(desc.ifd0))

\* The first date entry of the EXIF sub-IFD, which IFD0 points to, is
\* decodable.
SubIfdHasDate(d) ==
    /\ CountTag(d.ifd0, EXIF_IFD_POINTER) = 1
    /\ DateEntries(d.sub) # {}
    /\ \A i \in DateEntries(d.sub) :
         (\A j \in DateEntries(d.sub) : i <= j) => IsGoodDate(d.sub[i])

FirstSubDate(d) ==
    LET i == CHOOSE i \in DateEntries(d.sub) : \A j \in DateEntries(d.sub) : i <= j
    IN  StoredDate(PoolItems[d.sub[i].a].chars)

\* C14: when IFD0 and the EXIF sub-IFD both hold a decodable date tag, the
\* date reported is one of IFD0; the date of the sub-IFD is reported when
\* IFD0 holds no decodable date tag.
C14_Ifd0DateHasPriority ==
    (Done /\ ReachesIfd0(desc) /\ SubIfdHasDate(desc)) =>
        IF GoodDates(desc.ifd0) # {}
        THEN result.dateTaken \in DatesOf(desc.ifd0, GoodDates(desc.ifd0))
        ELSE DateEntries(desc.ifd0) \subseteq MalformedDates(desc.ifd0)
                 => result.dateTaken = FirstSubDate(desc)

\* The same, for files whose IFD0 holds no malformed date entry.
C14_WithoutMalformedIfd0Date ==
    (MalformedDates(desc.ifd0) = {}) => C14_Ifd0DateHasPriority

\* A string 'YYYY-MM-DDTHH:MM:SSZ' that names an instant: month 01-12, a day
\* of that month, hour 00-23, minute and second 00-59.
Digits2(str, i) == (str[i] - 48) * 10 + (str[i + 1] - 48)

Digits4(str, i) == Digits2(str, i) * 100 + Digits2(str, i + 2)

IsLeapYear(y) == y % 4 = 0 /\ (y % 100 # 0 \/ y % 400 = 0)

DaysInMonth(y, m) ==
    IF m = 2 THEN (IF IsLeapYear(y) THEN 29 ELSE 28)
    ELSE IF m \in {4, 6, 9, 11} THEN 30 ELSE 31

IsIsoInstant(str) ==
    /\ Len(str) = 20
    /\ \A k \in {1, 2, 3, 4, 6, 7, 9, 10, 12, 13, 15, 16, 18, 19} : IsDigit(str[k])
    /\ str[5] = 45 /\ str[8] = 45 /\ str[11] = 84
    /\ str[14] = 58 /\ str[17] = 58 /\ str[20] = 90
    /\ Digits2(str, 6) \in 1..12
    /\ Digits2(str, 9) \in 1..DaysInMonth(Digits4(str, 1), Digits2(str, 6))
    /\ Digits2(str, 12) \in 0..23
    /\ Digits2(str, 15) \in 0..59
    /\ Digits2(str, 18) \in 0..59

\* C15: dateTaken, when present in a result, names a valid ISO-8601 UTC
\* instant, which the datetime check of the schemas accepts.
C15_DateTakenIsInstant ==
    (Done /\ result.dateTaken # Null) => IsIsoInstant(result.dateTaken)

\* The file is declared image/jpeg and its buffer does not start with 0xFFD8,
\* or is shorter than two bytes.
DeclaredJpegWithoutSoi(f) ==
    /\ f.type = ImageJpeg
    /\ f.readable
    /\ \/ Len(f.bytes) < 2
       \/ f.bytes[1] # 255
       \/ f.bytes[2] # 216

\* C19: for a file declared image/jpeg whose first two bytes are not 0xFFD8,
\* or whose buffer is shorter than two bytes, extractExifData returns the
\* all-absent result, throws nothing and never enters the segment scan.
C19_NoSoiNoScan ==
    DeclaredJpegWithoutSoi(file) =>
        /\ pc # "scan"
        /\ ~threw
        /\ Done => result = AllAbsent /\ offset = 0

\* The call has returned on a buffer that holds a whole EXIF segment after
\* two bytes that are not the SOI marker.
C19_Witness ==
    /\ Done
    /\ DeclaredJpegWithoutSoi(file)
    /\ bufferRead
    /\ ~desc.soi /\ desc.cut = 0 /\ desc.hdr = "ok" /\ desc.pre = <<>>

\* The call has returned on a buffer of fewer than two bytes.
C19_WitnessShort ==
    /\ Done
    /\ DeclaredJpegWithoutSoi(file)
    /\ Len(file.bytes) < 2

\* The buffer is a whole JPEG whose only APP1 segment does not start with
\* 'Exif\0\0'; its body holds a TIFF structure with GPS and date data.
OnlyApp1IsNotExif(d) ==
    /\ IsJpegFile(MakeFile(d)) /\ d.readable /\ d.soi /\ d.cut = 0
    /\ d.pre = <<>>
    /\ d.hdr # "ok"

\* C20: for a JPEG buffer whose only APP1 segment has header bytes different
\* from 'Exif\0\0', extractExifData returns the all-absent result and raises
\* no exception, whatever the body of the segment holds.
C20_OtherHeaderIsAllAbsent ==
    (Done /\ OnlyApp1IsNotExif(desc)) => (result = AllAbsent /\ ~threw)

\* The same on the headers 'Exif\0\1' and 'http:/', whose bytes hold no marker.
C20_HeaderWithoutMarker ==
    (Done /\ OnlyApp1IsNotExif(desc) /\ desc.hdr # "nested") =>
        (result = AllAbsent /\ ~threw)

\* A step of the call can be taken.
NextEnabled == pc # "done" /\ ~threw

\* extractExifData is an async function the caller awaits: a step that can
\* be taken is taken.  This is the weak fairness of Next, with its enabling
\* condition written as a state predicate.
SpecScan == ExifInit /\ [][Next]_vars /\ ([]<>~NextEnabled \/ []<><<Next>>_vars)

\* C24: the marker-segment scan terminates on every finite buffer: each
\* iteration returns, breaks or strictly increases the scan offset (also
\* after a segment of declared length 0 and after an APP1 segment whose
\* header does not match), and when the buffer is exhausted before an EXIF
\* segment is found the result is all-absent.
C24_ScanTerminates ==
    /\ [][/\ (pc = "scan" /\ pc' = "scan") => offset' > offset
          /\ (pc = "scan" /\ ~ScanGuard(file.bytes, offset)) =>
               (pc' = "done" /\ result' = AllAbsent /\ ~threw')]_vars
    /\ <>(pc = "done")

\* The scan went past a segment of declared length 0 and an APP1 segment
\* without the EXIF header, and the call returned.
C24_Witness ==
    /\ Done
    /\ desc.soi /\ desc.cut = 0 /\ IsJpegFile(file) /\ desc.readable
    /\ desc.pre = <<"xmp", "zero">>
    /\ offset > 2

-----------------------------------------------------------------------------
(* readExifDate on its own *)

\* The bound of the buffers: the number of bytes before the date string.
MaxPad == 2

ExifDateChars == <<50, 48, 50, 52, 58, 48, 54, 58, 49, 53, 32, 49, 52, 58, 51, 48, 58, 48, 48>>

\* The characters put in place of one character of the date string: digits,
\* the characters next to the digits in ASCII, separators, a zero byte, a
\* letter and a byte above 127.
OtherChars == {48, 57, 47, 58, 32, 45, 0, 65, 200}

Pad(n) == [i \in 1..n |-> 49]

\* The buffers readExifDate is called on: the date string with one character
\* replaced, or cut short, after some bytes and before the end of the buffer,
\* a zero byte or a digit.
DateViews ==
    {Pad(n) \o [ExifDateChars EXCEPT ![i] = c] \o t :
       n \in 0..MaxPad, i \in 1..19, c \in OtherChars, t \in {<<>>, <<0>>, <<49>>}}
    \cup {Pad(n) \o SubSeq(ExifDateChars, 1, k) \o t :
            n \in 0..MaxPad, k \in 0..18, t \in {<<>>, <<0>>}}

DateInit ==
    /\ dateView \in DateViews
    /\ dateOffset \in 0..MaxPad
    /\ dateReturn = [returned |-> FALSE, value |-> <<>>]
    /\ desc = BaseDesc
    /\ file = MakeFile(BaseDesc)
    /\ pc = "done"
    /\ offset = 0
    /\ result = AllAbsent
    /\ threw = FALSE
    /\ bufferRead = FALSE
    /\ UploaderIdle
    /\ StoreIdle
    /\ CallIdle
    /\ ServiceIdle
    /\ MapIdle

\* The call of readExifDate(view, offset).
ReadExifDateCall ==
    /\ ~dateReturn.returned
    /\ dateReturn' = [returned |-> TRUE, value |-> readExifDate(dateView, dateOffset)]
    /\ UNCHANGED <<dateView, dateOffset>>
    /\ UNCHANGED <<exifVars, uploadVars, storeVars, callVars, serviceVars, mapVars>>

DateNext == ReadExifDateCall

SpecDate == DateInit /\ [][DateNext]_vars

\* The bytes from the offset up to the 19th, or up to the first zero byte
\* among them; the buffer may end before.
BytesInReach(v, off) ==
    LET n == IF Len(v) - off < 19 THEN (IF Len(v) - off < 0 THEN 0 ELSE Len(v) - off)
             ELSE 19
        zeros == {k \in 1..n : v[off + k] = 0}
        stop == IF zeros = {} THEN n + 1 ELSE CHOOSE k \in zeros : \A j \in zeros : k <= j
    IN  [chars |-> SubSeq(v, off + 1, off + stop - 1),
         endOfBuffer |-> zeros = {} /\ n < 19]

\* 'YYYY:MM:DD HH:MM:SS'
IsExifDateShape(str) ==
    /\ Len(str) = 19
    /\ \A k \in {1, 2, 3, 4, 6, 7, 9, 10, 12, 13, 15, 16, 18, 19} : str[k] \in 48..57
    /\ str[5] = 58 /\ str[8] = 58 /\ str[11] = 32 /\ str[14] = 58 /\ str[17] = 58

\* C16: readExifDate reads at most 19 bytes from the offset and stops at the
\* first zero byte; it returns 'YYYY-MM-DDTHH:MM:SSZ' with the same digits
\* exactly when the bytes read are 'YYYY:MM:DD HH:MM:SS', and absent for any
\* other bytes, and when the string is cut short by a zero byte or by the
\* end of the buffer.
C16_ReadExifDate ==
    dateReturn.returned =>
        LET r == BytesInReach(dateView, dateOffset) IN
        dateReturn.value = IF ~r.endOfBuffer /\ IsExifDateShape(r.chars)
                           THEN StoredDate(r.chars \o <<0>>)
                           ELSE Null

\* A date string after one byte and before a digit: the date is returned, the
\* bytes around the 19 play no part.
C16_Witness ==
    /\ dateReturn.returned
    /\ dateReturn.value # Null
    /\ dateOffset > 0
    /\ Len(dateView) > dateOffset + 19
    /\ dateView[dateOffset + 20] # 0

-----------------------------------------------------------------------------
(* Several entries for one field *)

LastOf(is) == CHOOSE i \in is : \A j \in is : j <= i

DirEntries(entries) ==
    {i \in 1..Len(entries) : entries[i].tag = GPS_IMG_DIRECTION}

\* What one date entry decodes to: the rewritten string when its 19 bytes
\* have the date pattern's shape, absent otherwise.
DecodedDate(e) ==
    IF e.k = "pool" /\ IsExifDateShape(SubSeq(PoolItems[e.a].chars, 1, 19))
    THEN StoredDate(PoolItems[e.a].chars)
    ELSE Null

\* What one direction entry decodes to: the quotient of a RATIONAL with a
\* non-zero denominator, absent otherwise.
DecodedDir(e) ==
    IF e.type = 5 /\ e.k = "pool" /\ PoolItems[e.a].rats[1][2] # 0
    THEN DirValue(e)
    ELSE Null

\* IFD0 is reached and holds several date entries.
SeveralDates(d) ==
    /\ ReachesIfd0(d) /\ d.extra = 0
    /\ Cardinality(DateEntries(d.ifd0)) >= 2

\* The GPS IFD is reached and holds several direction entries, every value
\* offset of the IFD inside the buffer.
SeveralDirections(d) ==
    /\ ReachesIfd0(d) /\ d.extra = 0
    /\ CountTag(d.ifd0, GPS_IFD_POINTER) = 1
    /\ TheEntry(d.ifd0, GPS_IFD_POINTER).k = "gps"
    /\ FarEntries(d.gps) = {}
    /\ Cardinality(DirEntries(d.gps)) >= 2

-----------------------------------------------------------------------------
(* Reads beyond the EXIF segment *)

\* The number of bytes handed to the walker: the declared length minus 8.
SegmentBytes(d) == Len(TiffBytes(d)) - d.short

\* C26: the walker reads only bytes of the EXIF segment it was handed. When
\* the segment ends before the data items, no value is decoded from them and
\* the result is all-absent; when it ends before the GPS IFD, no coordinate
\* and no bearing is reported.
C26_NothingDecodedPastSegment ==
    (Done /\ ReachesIfd0(desc) /\ desc.short > 0) =>
        /\ PoolStart(desc) >= SegmentBytes(desc) => result = AllAbsent
        /\ GpsStart(desc) >= SegmentBytes(desc) =>
              /\ result.latitude = Null /\ result.longitude = Null
              /\ result.bearing = Null

\* A segment that ends inside the last data item, which no entry points to:
\* every byte the walker reads is inside the segment.
C26_UnusedTailOnly ==
    (Done /\ ReachesIfd0(desc) /\ desc.short = 1) => result.latitude # Null

-----------------------------------------------------------------------------
(* gpsToDecimal on its own *)

\* Degrees, minutes and seconds as readGpsRationals gives them, in
\* hundredths: 0, 0.01, 1, 4.99, 43, 49.48, 59, 59.99 and 179.
GpsHundredths == {0, 1, 100, 499, 4300, 4948, 5900, 5999, 17900}

\* 'N', 'S', 'E', 'W'
GpsRefs == {78, 83, 69, 87}

GpsCalls ==
    {[fn |-> "gpsToDecimal",
      args |-> <<Ratio(d, 100), Ratio(m, 100), Ratio(sec, 100), ref>>,
      returned |-> FALSE, value |-> Null] :
       d \in GpsHundredths, m \in GpsHundredths, sec \in GpsHundredths, ref \in GpsRefs}

GpsInit ==
    /\ call \in GpsCalls
    /\ ExifIdle
    /\ UploaderIdle
    /\ StoreIdle
    /\ DateIdle
    /\ ServiceIdle
    /\ MapIdle

\* The call of gpsToDecimal(degrees, minutes, seconds, ref).
GpsToDecimalCall ==
    /\ call.fn = "gpsToDecimal"
    /\ ~call.returned
    /\ call' = [call EXCEPT !.returned = TRUE,
                            !.value = gpsToDecimal(call.args[1], call.args[2],
                                                   call.args[3], call.args[4])]
    /\ UNCHANGED <<exifVars, uploadVars, storeVars, dateVars, serviceVars, mapVars>>

GpsNext == GpsToDecimalCall

SpecGps == GpsInit /\ [][GpsNext]_vars

\* p * k for a rational p whose denominator divides k.
ScaledBy(p, k) == p[1] * (k \div p[2])

\* d + m/60 + s/3600 in units of 1/360000 of a degree.
DmsUnits(args) ==
    ScaledBy(args[1], 360000) + ScaledBy(args[2], 6000) + ScaledBy(args[3], 100)

\* C21: for all degree, minute and second values and every reference in
\* {N, S, E, W}, gpsToDecimal with 'S' is the negation of gpsToDecimal with
\* 'N' and gpsToDecimal with 'W' the negation of gpsToDecimal with 'E'; the
\* magnitude of the result is d + m/60 + s/3600, and the result is negated
\* exactly when the reference is 'S' or 'W'.
C21_GpsToDecimalSign ==
    call.returned =>
        LET d == call.args[1]
            m == call.args[2]
            sec == call.args[3]
            magnitude == Ratio(DmsUnits(call.args), 360000)
        IN  /\ gpsToDecimal(d, m, sec, 83) = RatNeg(gpsToDecimal(d, m, sec, 78))
            /\ gpsToDecimal(d, m, sec, 87) = RatNeg(gpsToDecimal(d, m, sec, 69))
            /\ call.value = IF call.args[4] \in {83, 87} THEN RatNeg(magnitude)
                            ELSE magnitude

\* The longitude of the specification's example, 79 20' 49.48" W.
C21_Witness ==
    /\ call.returned
    /\ call.args = <<Ratio(17900, 100), Ratio(5900, 100), Ratio(4948, 100), 87>>
    /\ call.value[1] < 0
    /\ call.value[2] > 1

-----------------------------------------------------------------------------
(* Photo.getBearingLabel on its own *)

\* ['N', 'NE', 'E', 'SE', 'S', 'SW', 'W', 'NW']
directions ==
    << <<78>>, <<78, 69>>, <<69>>, <<83, 69>>, <<83>>, <<83, 87>>, <<87>>, <<78, 87>> >>

\* Math.round(p / k) for a rational p >= 0 and an integer k > 0.
RoundedQuotient(p, k) == (2 * p[1] + k * p[2]) \div (2 * k * p[2])

\* A label function that indexes without the modulo: index 8 is undefined.
getBearingLabelNoWrap(value) ==
    IF value = Null THEN Null
    ELSE LET index == RoundedQuotient(value, 45) IN
         IF index + 1 \in DOMAIN directions THEN directions[index + 1] ELSE Null

\* Photo.getBearingLabel(photo), on photo.bearing.
getBearingLabel(value) ==
    IF value = Null THEN Null
    ELSE LET index == RoundedQuotient(value, 45) % 8 IN directions[index + 1]

\* The bound of the bearings the label is asked for, in tenths of a degree.
MaxTenths == 3600

LabelCalls ==
    {[fn |-> "getBearingLabel", args |-> <<v>>, returned |-> FALSE, value |-> Null] :
       v \in {Ratio(t, 10) : t \in 0..MaxTenths} \cup {Null}}

LabelInit ==
    /\ call \in LabelCalls
    /\ ExifIdle
    /\ UploaderIdle
    /\ StoreIdle
    /\ DateIdle
    /\ ServiceIdle
    /\ MapIdle

\* The call of Photo.getBearingLabel(photo).
GetBearingLabelCall ==
    /\ call.fn = "getBearingLabel"
    /\ ~call.returned
    /\ call' = [call EXCEPT !.returned = TRUE, !.value = getBearingLabel(call.args[1])]
    /\ UNCHANGED <<exifVars, uploadVars, storeVars, dateVars, serviceVars, mapVars>>

LabelNext == GetBearingLabelCall

SpecLabel == LabelInit /\ [][LabelNext]_vars

\* The sector a bearing lies in: k with 45k - 22.5 <= b < 45k + 22.5.
SectorOf(p) ==
    CHOOSE k \in 0..8 : /\ 2 * p[1] >= (90 * k - 45) * p[2]
                        /\ 2 * p[1] < (90 * k + 45) * p[2]

\* C22: for every bearing b with 0 <= b <= 360 Photo.getBearingLabel returns
\* the element at index round(b / 45) mod 8 of the eight labels, which is
\* always one of them: 0 gives 'N', 45 gives 'NE', every b that rounds to 8,
\* such as 359, wraps to 'N'; a null bearing gives null.
C22_BearingLabel ==
    call.returned =>
        LET b == call.args[1] IN
        IF b = Null THEN call.value = Null
        ELSE (RatGeInt(b, 0) /\ RatLeInt(b, 360)) =>
               /\ \E k \in 1..8 : call.value = directions[k]
               /\ call.value = directions[(SectorOf(b) % 8) + 1]
               /\ b = <<0, 1>> => call.value = <<78>>
               /\ b = <<45, 1>> => call.value = <<78, 69>>
               /\ SectorOf(b) = 8 => call.value = <<78>>

\* The label of 359 was asked for: it is 'N'.
C22_Witness ==
    /\ call.returned
    /\ call.args[1] = <<359, 1>>
    /\ call.value = <<78>>

-----------------------------------------------------------------------------
(* PhotoUploader: file classification *)

\* Bounds of the uploader's input: the number of files picked at once.
MaxFiles == 2

ImagePng == TypePng
ImageGif == <<105, 109, 97, 103, 101, 47, 103, 105, 102>>
ImageWebp == <<105, 109, 97, 103, 101, 47, 119, 101, 98, 112>>
VideoMp4 == <<118, 105, 100, 101, 111, 47, 109, 112, 52>>
VideoQuicktime == <<118, 105, 100, 101, 111, 47, 113, 117, 105, 99, 107, 116, 105, 109, 101>>
VideoWebm == <<118, 105, 100, 101, 111, 47, 119, 101, 98, 109>>

IMAGE_TYPES == {ImageJpeg, ImagePng, ImageGif, ImageWebp}
VIDEO_TYPES == {VideoMp4, VideoQuicktime, VideoWebm}

\* /\.(jpg|jpeg|png|gif|webp)$/i and /\.(mp4|mov|webm)$/i
IMAGE_EXTENSIONS ==
    {<<46, 106, 112, 103>>, <<46, 106, 112, 101, 103>>, <<46, 112, 110, 103>>,
     <<46, 103, 105, 102>>, <<46, 119, 101, 98, 112>>}
VIDEO_EXTENSIONS ==
    {<<46, 109, 112, 52>>, <<46, 109, 111, 118>>, <<46, 119, 101, 98, 109>>}

TestExtension(exts, name) == \E e \in exts : EndsWith(ToLowerCase(name), e)

isVideoFile(f) == f.type \in VIDEO_TYPES \/ TestExtension(VIDEO_EXTENSIONS, f.name)

isImageFile(f) == f.type \in IMAGE_TYPES \/ TestExtension(IMAGE_EXTENSIONS, f.name)

isAcceptedFile(f) == isVideoFile(f) \/ isImageFile(f)

\* maxFileSizeMB * 1024 * 1024 with the default of 50.
MaxBytes == 52428800

-----------------------------------------------------------------------------
(* stripExifData *)

\* The File as it was picked.
FileRef(f) == [origin |-> f.id, content |-> "original", name |-> f.name, type |-> f.type]

\* new File([blob], file.name, { type: 'image/jpeg' })
StrippedFileOf(f) ==
    [origin |-> f.id, content |-> "reencoded", name |-> f.name, type |-> ImageJpeg]

\* A call of resolve or reject: the first call settles the promise, later
\* calls are counted and change nothing else.
Settle(p, state, value, error) ==
    IF p.calls = 0
    THEN [p EXCEPT !.state = state, !.value = value, !.error = error, !.calls = 1]
    ELSE [p EXCEPT !.calls = p.calls + 1]

\* The call: the image element is created and given the object URL.
StripStarted ==
    [StripIdle EXCEPT !.state = "loading", !.urlOpen = TRUE]

\* img.onload: the URL is revoked; without a 2D context the promise is
\* rejected, otherwise the image is drawn and toBlob is called.
OnLoadResult(p, ctx) ==
    IF ~ctx
    THEN Settle([p EXCEPT !.urlOpen = FALSE, !.path = "noContext"], "rejected", NoFile,
                "Failed to get canvas context")
    ELSE [p EXCEPT !.urlOpen = FALSE, !.state = "encoding"]

\* img.onerror
OnErrorResult(p) ==
    Settle([p EXCEPT !.urlOpen = FALSE, !.path = "loadError"], "rejected", NoFile,
           "Failed to load image")

\* The encoder hands the original bytes on when it produced nothing.
BlobResultPassThrough(p, f, blob) ==
    IF ~blob THEN Settle([p EXCEPT !.path = "noBlob"], "resolved", FileRef(f), "")
    ELSE Settle([p EXCEPT !.path = "blob"], "resolved", StrippedFileOf(f), "")

\* The callback of canvas.toBlob.
BlobResult(p, f, blob) ==
    IF ~blob
    THEN Settle([p EXCEPT !.path = "noBlob"], "rejected", NoFile, "Failed to create blob")
    ELSE Settle([p EXCEPT !.path = "blob"], "resolved", StrippedFileOf(f), "")

-----------------------------------------------------------------------------
(* The upload action and PhotoService.upload *)

\* PUBLIC_MAP_DEFAULT_LAT and PUBLIC_MAP_DEFAULT_LNG, by their fallbacks.
DefaultLat == <<44514679, 1000000>>
DefaultLng == <<-80995797, 1000000>>

\* The metadata the upload action builds from the form.  A field of the form
\* is a string: it is falsy only when it is not set (Number.toString never
\* gives ''), and parseFloat gives back the number toString was called on.
\* "none" stands for a bearing_source of null.
UploadMetadata(form) ==
    LET hasGps == form.latitude # Null /\ form.longitude # Null IN
    [latitude |-> IF form.latitude # Null THEN form.latitude
                  ELSE IF form.mediaType = "video" THEN DefaultLat ELSE Null,
     longitude |-> IF form.longitude # Null THEN form.longitude
                   ELSE IF form.mediaType = "video" THEN DefaultLng ELSE Null,
     position_source |-> IF hasGps THEN "exif" ELSE "manual",
     bearing |-> form.bearing,
     bearing_source |-> IF form.bearing # Null THEN "exif" ELSE "none",
     date_taken |-> form.dateTaken,
     date_source |-> IF form.dateTaken # Null THEN "exif" ELSE "manual",
     media_type |-> form.mediaType,
     duration |-> form.duration]

\* z.number().min(lo).max(hi).nullable().optional()
NumberInRange(v, lo, hi) == v = Null \/ (RatGeInt(v, lo) /\ RatLeInt(v, hi))

\* z.string().datetime(): 'YYYY-MM-DDTHH:MM:SS', an optional fraction, 'Z'.
ZodDatetime(str) ==
    /\ Len(str) >= 20
    /\ \A k \in {1, 2, 3, 4, 6, 7, 9, 10, 12, 13, 15, 16, 18, 19} : IsDigit(str[k])
    /\ str[5] = 45 /\ str[8] = 45 /\ str[11] = 84 /\ str[14] = 58 /\ str[17] = 58
    /\ str[Len(str)] = 90
    /\ Len(str) > 20 => /\ str[20] = 46
                        /\ Len(str) > 21
                        /\ \A k \in 21..(Len(str) - 1) : IsDigit(str[k])

\* PhotoCreateSchema.safeParse(input).success, on the fields the action sets.
PhotoCreateSchema(input) ==
    /\ NumberInRange(input.latitude, -90, 90)
    /\ NumberInRange(input.longitude, -180, 180)
    /\ NumberInRange(input.bearing, 0, 360)
    /\ input.date_taken = Null \/ ZodDatetime(input.date_taken)
    /\ input.duration = Null \/ input.duration[1] >= 0

\* The photos table after the upload action on a form.  ok is FALSE when the
\* permission check, the storage or the insert fails; the record is inserted
\* only when it passes the schema.  origin is the id of the file it was
\* created for.
actionsUpload(rows, form, ok) ==
    LET input == UploadMetadata(form) IN
    IF ok /\ PhotoCreateSchema(input)
    THEN Append(rows, [origin |-> form.file.origin] @@ input)
    ELSE rows

-----------------------------------------------------------------------------
(* processFiles and handleUpload *)

\* new Date(file.lastModified).toISOString(), as '2024-01-01T00:00:00.000Z'.
LastModifiedIso ==
    <<50, 48, 50, 52, 45, 48, 49, 45, 48, 49, 84, 48, 48, 58, 48, 48, 58, 48, 48, 46,
      48, 48, 48, 90>>

\* The entry pushed for a video: the file itself stands as strippedFile.
VideoEntry(f, duration) ==
    [file |-> FileRef(f), strippedFile |-> FileRef(f),
     exifData |-> [AllAbsent EXCEPT !.dateTaken =
                       IF f.lastModified # 0 THEN LastModifiedIso ELSE Null],
     mediaType |-> "video", duration |-> <<duration>>, thumbnailBlob |-> TRUE]

\* The entry pushed for an image.
ImageEntry(f, stripped, exif) ==
    [file |-> FileRef(f), strippedFile |-> stripped, exifData |-> exif,
     mediaType |-> "photo", duration |-> Null, thumbnailBlob |-> TRUE]

\* The form data with the original file in the 'file' field.
FormDataOriginal(upload) ==
    [file |-> upload.file,
     latitude |-> upload.exifData.latitude,
     longitude |-> upload.exifData.longitude,
     bearing |-> upload.exifData.bearing,
     dateTaken |-> upload.exifData.dateTaken,
     mediaType |-> upload.mediaType,
     duration |-> upload.duration,
     thumbnail |-> upload.thumbnailBlob]

\* The form data handleUpload builds for an entry; Null is a field not set.
FormDataFor(upload) ==
    [file |-> upload.strippedFile,
     latitude |-> upload.exifData.latitude,
     longitude |-> upload.exifData.longitude,
     bearing |-> upload.exifData.bearing,
     dateTaken |-> upload.exifData.dateTaken,
     mediaType |-> upload.mediaType,
     duration |-> upload.duration,
     thumbnail |-> upload.thumbnailBlob]

Event(e, id) == [e |-> e, id |-> id]

\* The files of the uploader's input: images with and without GPS data, an
\* image cut after four bytes, videos, an image over the size limit, a file
\* of no accepted type.
PickedFile(d, type, name, size, modified) ==
    [type |-> type, name |-> name, readable |-> TRUE, bytes |-> FileBytes(d),
     size |-> size, lastModified |-> modified]

PickedFiles ==
    {PickedFile(BaseDesc, ImageJpeg, NameJpg, 1000, 1),
     PickedFile([BaseDesc EXCEPT !.gps = <<Dir(9)>>, !.ifd0 = <<GpsPtr>>], ImageJpeg,
                NameJpeg, MaxBytes, 1),
     PickedFile(BaseDesc, ImagePng, NamePng, 1000, 1),
     PickedFile([BaseDesc EXCEPT !.cut = Len(FullBytes(BaseDesc)) - 4], ImageJpeg,
                NameJpgUpper, 4, 1),
     PickedFile(BaseDesc, ImageJpeg, NameJpg, MaxBytes + 1, 1),
     PickedFile(BaseDesc, VideoMp4, <<97, 46, 109, 112, 52>>, 1000, 1),
     PickedFile(BaseDesc, <<>>, <<97, 46, 77, 79, 86>>, 1000, 0),
     PickedFile(BaseDesc, <<>>, <<97, 46, 116, 120, 116>>, 1000, 1)}

\* The picked files, numbered in the order picked.
Batches ==
    {[i \in 1..Len(b) |-> [id |-> i] @@ b[i]] : b \in SeqsUpTo(PickedFiles, MaxFiles)}

UploadInit ==
    /\ desc = BaseDesc
    /\ file = MakeFile(BaseDesc)
    /\ pc = "done"
    /\ offset = 0
    /\ result = AllAbsent
    /\ threw = FALSE
    /\ bufferRead = FALSE
    /\ selected \in Batches
    /\ files = <<>>
    /\ upc = "idle"
    /\ idx = 0
    /\ exifData = AllAbsent
    /\ strippedFile = NoFile
    /\ strip = StripIdle
    /\ uploadedFiles = <<>>
    /\ uploadError = ""
    /\ hpc = "idle"
    /\ hidx = 0
    /\ handed = <<>>
    /\ posted = <<>>
    /\ events = <<>>
    /\ StoreIdle
    /\ DateIdle
    /\ CallIdle
    /\ ServiceIdle
    /\ MapIdle

\* handleFileSelect / handleDrop: the accepted files go to processFiles.
HandleFileSelect ==
    /\ upc = "idle"
    /\ files' = SelectSeq(selected, isAcceptedFile)
    /\ upc' = IF Len(files') > 0 THEN "loop" ELSE "finished"
    /\ idx' = 1
    /\ uploadError' = ""
    /\ UNCHANGED <<selected, exifData, strippedFile, strip, uploadedFiles, hpc, hidx,
                   handed, posted, events>>
    /\ UNCHANGED <<exifVars, storeVars, dateVars, callVars, serviceVars, mapVars>>

\* The next file: its processing is over, in an entry or in the catch block.
NextFile(err) ==
    /\ upc' = "loop"
    /\ idx' = idx + 1
    /\ uploadError' = IF err = "" THEN uploadError ELSE err
    /\ exifData' = AllAbsent
    /\ strippedFile' = NoFile
    /\ strip' = StripIdle

\* The size check of the loop.
SkipTooBig ==
    /\ upc = "loop" /\ idx <= Len(files)
    /\ files[idx].size > MaxBytes
    /\ NextFile("exceeds limit")
    /\ UNCHANGED <<selected, files, uploadedFiles, hpc, hidx, handed, posted, events>>
    /\ UNCHANGED <<exifVars, storeVars, dateVars, callVars, serviceVars, mapVars>>

\* A video: processVideo is awaited.
BeginVideo ==
    /\ upc = "loop" /\ idx <= Len(files)
    /\ files[idx].size <= MaxBytes
    /\ isVideoFile(files[idx])
    /\ upc' = "video"
    /\ UNCHANGED <<selected, files, idx, exifData, strippedFile, strip, uploadedFiles,
                   uploadError, hpc, hidx, handed, posted, events>>
    /\ UNCHANGED <<exifVars, storeVars, dateVars, callVars, serviceVars, mapVars>>

\* processVideo resolved (an entry is pushed) or rejected (the catch block).
VideoSettled ==
    /\ upc = "video"
    /\ \E ok \in BOOLEAN :
         IF ok
         THEN /\ uploadedFiles' = Append(uploadedFiles, VideoEntry(files[idx], 3))
              /\ events' = Append(events, Event("attached", files[idx].id))
              /\ NextFile("")
         ELSE /\ NextFile("Failed to process video")
              /\ UNCHANGED <<uploadedFiles, events>>
    /\ UNCHANGED <<selected, files, hpc, hidx, handed, posted>>
    /\ UNCHANGED <<exifVars, storeVars, dateVars, callVars, serviceVars, mapVars>>

\* An image: extractExifData is called on the file and awaited.
BeginImage ==
    /\ upc = "loop" /\ idx <= Len(files)
    /\ files[idx].size <= MaxBytes
    /\ ~isVideoFile(files[idx])
    /\ upc' = "extract"
    /\ file' = files[idx]
    /\ pc' = "start"
    /\ offset' = 0
    /\ result' = AllAbsent
    /\ threw' = FALSE
    /\ bufferRead' = FALSE
    /\ UNCHANGED <<selected, files, idx, exifData, strippedFile, strip, uploadedFiles,
                   uploadError, hpc, hidx, handed, posted, events, desc>>
    /\ UNCHANGED <<storeVars, dateVars, callVars, serviceVars, mapVars>>

\* await extractExifData(file) resumes with its result and stripExifData is
\* called; an exception of extractExifData would go to the catch block.
ExtractAwaited ==
    /\ upc = "extract"
    /\ pc = "done" \/ threw
    /\ IF threw
       THEN /\ NextFile("Failed to process image")
       ELSE /\ exifData' = result
            /\ strip' = StripStarted
            /\ upc' = "strip"
            /\ UNCHANGED <<idx, strippedFile, uploadError>>
    /\ UNCHANGED <<selected, files, uploadedFiles, hpc, hidx, handed, posted, events>>
    /\ UNCHANGED <<exifVars, storeVars, dateVars, callVars, serviceVars, mapVars>>

StripStep(p) ==
    /\ strip' = p
    /\ events' = IF p.state = strip.state \/ p.state = "encoding" THEN events
                 ELSE Append(events, Event(p.state, files[idx].id))
    /\ UNCHANGED <<selected, files, upc, idx, exifData, strippedFile, uploadedFiles,
                   uploadError, hpc, hidx, handed, posted>>
    /\ UNCHANGED <<exifVars, storeVars, dateVars, callVars, serviceVars, mapVars>>

\* The image loaded.
ImgOnLoad ==
    /\ upc = "strip" /\ strip.state = "loading"
    /\ \E ctx \in BOOLEAN : StripStep(OnLoadResult(strip, ctx))

\* The image did not load.
ImgOnError ==
    /\ upc = "strip" /\ strip.state = "loading"
    /\ StripStep(OnErrorResult(strip))

\* The encoder called back, with a blob or with null.
ToBlobCallback ==
    /\ upc = "strip" /\ strip.state = "encoding"
    /\ \E blob \in BOOLEAN : StripStep(BlobResult(strip, files[idx], blob))

\* await stripExifData(file) resumes with the file; generateImageThumbnail is
\* called on it.
StripAwaited ==
    /\ upc = "strip" /\ strip.state = "resolved"
    /\ strippedFile' = strip.value
    /\ upc' = "thumb"
    /\ UNCHANGED <<selected, files, idx, exifData, strip, uploadedFiles, uploadError,
                   hpc, hidx, handed, posted, events>>
    /\ UNCHANGED <<exifVars, storeVars, dateVars, callVars, serviceVars, mapVars>>

\* await stripExifData(file) throws: the catch block.
StripRejected ==
    /\ upc = "strip" /\ strip.state = "rejected"
    /\ NextFile("Failed to process image")
    /\ UNCHANGED <<selected, files, uploadedFiles, hpc, hidx, handed, posted, events>>
    /\ UNCHANGED <<exifVars, storeVars, dateVars, callVars, serviceVars, mapVars>>

\* generateImageThumbnail resolved (the entry is pushed) or rejected.
ThumbSettled ==
    /\ upc = "thumb"
    /\ \E ok \in BOOLEAN :
         IF ok
         THEN /\ uploadedFiles' =
                   Append(uploadedFiles, ImageEntry(files[idx], strippedFile, exifData))
              /\ events' = Append(events, Event("attached", files[idx].id))
              /\ NextFile("")
         ELSE /\ NextFile("Failed to process image")
              /\ UNCHANGED <<uploadedFiles, events>>
    /\ UNCHANGED <<selected, files, hpc, hidx, handed, posted>>
    /\ UNCHANGED <<exifVars, storeVars, dateVars, callVars, serviceVars, mapVars>>

\* After the loop: onUpload is called when there is an entry.
LoopEnd ==
    /\ upc = "loop" /\ idx > Len(files)
    /\ upc' = "finished"
    /\ IF Len(uploadedFiles) > 0
       THEN /\ handed' = uploadedFiles
            /\ hpc' = "posting"
            /\ hidx' = 1
       ELSE UNCHANGED <<handed, hpc, hidx>>
    /\ UNCHANGED <<selected, files, idx, exifData, strippedFile, strip, uploadedFiles,
                   uploadError, posted, events>>
    /\ UNCHANGED <<exifVars, storeVars, dateVars, callVars, serviceVars, mapVars>>

\* handleUpload: the form data of the next entry is posted to ?/upload and the
\* response is awaited; the upload action creates the record or fails.
PostNext ==
    /\ hpc = "posting" /\ hidx <= Len(handed)
    /\ posted' = Append(posted, FormDataFor(handed[hidx]))
    /\ events' = Append(events, Event("posted", handed[hidx].file.origin))
    /\ hidx' = hidx + 1
    /\ \E ok \in BOOLEAN : photos' = actionsUpload(photos, FormDataFor(handed[hidx]), ok)
    /\ UNCHANGED <<selected, files, upc, idx, exifData, strippedFile, strip,
                   uploadedFiles, uploadError, hpc, handed>>
    /\ UNCHANGED <<editingPhotoId, editBearing>>
    /\ UNCHANGED <<exifVars, dateVars, callVars, serviceVars, mapVars>>

\* handleUpload: after the last entry.
PostFinish ==
    /\ hpc = "posting" /\ hidx > Len(handed)
    /\ hpc' = "finished"
    /\ UNCHANGED <<selected, files, upc, idx, exifData, strippedFile, strip,
                   uploadedFiles, uploadError, hidx, handed, posted, events>>
    /\ UNCHANGED <<exifVars, storeVars, dateVars, callVars, serviceVars, mapVars>>

UploadNext ==
    \/ HandleFileSelect
    \/ SkipTooBig
    \/ BeginVideo
    \/ VideoSettled
    \/ BeginImage
    \/ extractExifData
    \/ ExtractAwaited
    \/ ImgOnLoad
    \/ ImgOnError
    \/ ToBlobCallback
    \/ StripAwaited
    \/ StripRejected
    \/ ThumbSettled
    \/ LoopEnd
    \/ PostNext
    \/ PostFinish

SpecUpload == UploadInit /\ [][UploadNext]_vars

-----------------------------------------------------------------------------
(* The stored bearing: upload, DirectionPicker, the map's edit mode *)

\* The bound of the photos table.
MaxPhotos == 1

\* Math.round of a number given in tenths: floor(x + 0.5).
MathRound(tenths) == (tenths + 5) \div 10

\* DirectionPicker.calculateAngle(x, y); deg stands for
\* Math.atan2(x, -y) * (180 / Math.PI), in tenths of a degree.
calculateAngle(deg) ==
    LET angle == IF deg < 0 THEN deg + 3600 ELSE deg IN <<MathRound(angle), 1>>

\* A normalisation that adds the full turn and takes no remainder.
calculateBearingNoModulo(deg) == deg + 3600

\* PhotoMap.calculateBearing; deg stands for Math.atan2(y, x) * 180 / Math.PI,
\* in tenths of a degree, and so does the value.
calculateBearing(deg) == (deg + 3600) % 3600

\* The directions of the pointer from the centre of the compass, and of the
\* direction handle from the marker, in tenths of a degree.
PointerAngles == {-1799, -900, -6, -5, -4, 0, 4, 5, 900, 1800}

\* p % 360 for p >= 0.
RatMod360(p) == Ratio(p[1] % (360 * p[2]), p[2])

\* DirectionPicker.handleKeyDown: the value passed to onChange, Null when the
\* handler returns before.
handleKeyDown(cur, key) ==
    IF cur = Null THEN Null
    ELSE CASE key = "ArrowLeft" -> RatMod360(RatAdd(RatAdd(cur, <<-15, 1>>), <<360, 1>>))
           [] key = "ArrowRight" -> RatMod360(RatAdd(cur, <<15, 1>>))
           [] key = "ArrowUp" -> <<0, 1>>
           [] key = "ArrowDown" -> <<180, 1>>
           [] OTHER -> Null

\* PhotoBearingSchema.safeParse({ bearing }).success
PhotoBearingSchema(value) == RatGeInt(value, 0) /\ RatLeInt(value, 360)

\* PhotoService.updateBearing on the photo at index i.  ok is FALSE when the
\* photo is not found, not the user's, or the update fails.
updateBearing(rows, i, value, ok) ==
    IF PhotoBearingSchema(value) /\ ok
    THEN [rows EXCEPT ![i].bearing = value, ![i].bearing_source = "manual"]
    ELSE rows

\* The updateBearing action; Null stands for a bearing field that parseFloat
\* turns into NaN.
actionsUpdateBearing(rows, i, value, ok) ==
    IF value = Null THEN rows ELSE updateBearing(rows, i, value, ok)

\* new Date(editDate + 'T12:00:00').toISOString() for the day of a stored
\* date, in a time zone without offset.
NoonOf(date) ==
    SubSeq(date, 1, 10) \o <<84, 49, 50, 58, 48, 48, 58, 48, 48, 46, 48, 48, 48, 90>>

\* The updatePositionAndBearing action on the form handlePhotoUpdate posts:
\* updatePosition, then updateBearing when a bearing is given (a bearing the
\* schema rejects ends the action there), then the date.
updatePositionAndBearing(rows, i, lat, lng, value, date, ok) ==
    IF ~ok THEN rows
    ELSE LET moved == [rows EXCEPT ![i].latitude = lat, ![i].longitude = lng,
                                   ![i].position_source = "manual"]
             turned == IF value = Null THEN moved ELSE updateBearing(moved, i, value, ok)
         IN  IF value # Null /\ ~PhotoBearingSchema(value) THEN moved
             ELSE IF date = Null THEN turned
             ELSE [turned EXCEPT ![i].date_taken = date, ![i].date_source = "manual"]

\* The bearings an upload's form can carry: what extractExifData returned.
ExtractedBearings == {<<0, 1>>, <<90, 1>>, <<360, 1>>, <<400, 1>>}

\* The form of an upload with an extracted bearing, with or without GPS.
BearingForm(id, value, gps) ==
    [file |-> [origin |-> id, content |-> "reencoded", name |-> NameJpg, type |-> ImageJpeg],
     latitude |-> IF gps THEN <<43, 1>> ELSE Null,
     longitude |-> IF gps THEN <<-79, 1>> ELSE Null,
     bearing |-> value,
     dateTaken |-> StoredDate(ExifDateChars),
     mediaType |-> "photo",
     duration |-> Null,
     thumbnail |-> TRUE]

BearingInit ==
    /\ desc = BaseDesc
    /\ file = MakeFile(BaseDesc)
    /\ pc = "done"
    /\ offset = 0
    /\ result = AllAbsent
    /\ threw = FALSE
    /\ bufferRead = FALSE
    /\ UploaderIdle
    /\ StoreIdle
    /\ DateIdle
    /\ CallIdle
    /\ ServiceIdle
    /\ MapIdle

\* An upload whose form carries an extracted bearing.
UploadExtracted ==
    /\ Len(photos) < MaxPhotos
    /\ \E value \in ExtractedBearings, gps \in BOOLEAN, ok \in BOOLEAN :
         photos' = actionsUpload(photos, BearingForm(Len(photos) + 1, value, gps), ok)
    /\ UNCHANGED <<editingPhotoId, editBearing>>
    /\ UNCHANGED <<exifVars, uploadVars, dateVars, callVars, serviceVars, mapVars>>

\* DirectionPicker, mouse or touch: onChange(calculateAngle(x, y)); the value
\* is submitted to the updateBearing action.
PickerPointer ==
    /\ \E i \in 1..Len(photos), deg \in PointerAngles, ok \in BOOLEAN :
         photos' = actionsUpdateBearing(photos, i, calculateAngle(deg), ok)
    /\ UNCHANGED <<editingPhotoId, editBearing>>
    /\ UNCHANGED <<exifVars, uploadVars, dateVars, callVars, serviceVars, mapVars>>

\* DirectionPicker, keyboard: onChange(newBearing) for the arrow keys.
PickerKey ==
    /\ \E i \in 1..Len(photos),
          key \in {"ArrowLeft", "ArrowRight", "ArrowUp", "ArrowDown", "Enter"},
          ok \in BOOLEAN :
         /\ handleKeyDown(photos[i].bearing, key) # Null
         /\ photos' = actionsUpdateBearing(photos, i,
                                           handleKeyDown(photos[i].bearing, key), ok)
    /\ UNCHANGED <<editingPhotoId, editBearing>>
    /\ UNCHANGED <<exifVars, uploadVars, dateVars, callVars, serviceVars, mapVars>>

\* The bearing fields a request to the updateBearing action can carry.
RequestBearings == {Null, <<-1, 1>>, <<0, 1>>, <<359, 1>>, <<360, 1>>, <<361, 1>>}

\* A request to the updateBearing action.
UpdateBearingRequest ==
    /\ \E i \in 1..Len(photos), value \in RequestBearings, ok \in BOOLEAN :
         photos' = actionsUpdateBearing(photos, i, value, ok)
    /\ UNCHANGED <<editingPhotoId, editBearing>>
    /\ UNCHANGED <<exifVars, uploadVars, dateVars, callVars, serviceVars, mapVars>>

\* startEdit on a photo with coordinates.
startEdit ==
    /\ editingPhotoId = 0
    /\ \E i \in 1..Len(photos) :
         /\ photos[i].latitude # Null /\ photos[i].longitude # Null
         /\ editingPhotoId' = i
         /\ editBearing' = photos[i].bearing
    /\ UNCHANGED photos
    /\ UNCHANGED <<exifVars, uploadVars, dateVars, callVars, serviceVars, mapVars>>

\* The direction handle is dragged.
DragHandle ==
    /\ editingPhotoId # 0
    /\ \E deg \in PointerAngles : editBearing' = <<MathRound(calculateBearing(deg)), 1>>
    /\ UNCHANGED <<photos, editingPhotoId>>
    /\ UNCHANGED <<exifVars, uploadVars, dateVars, callVars, serviceVars, mapVars>>

\* saveEdit: onPhotoUpdate posts the position, the bearing and the date to
\* updatePositionAndBearing, then cancelEdit.
saveEdit ==
    /\ editingPhotoId # 0
    /\ \E ok \in BOOLEAN :
         LET row == photos[editingPhotoId] IN
         photos' = updatePositionAndBearing(photos, editingPhotoId, row.latitude,
                       row.longitude, editBearing,
                       IF row.date_taken = Null THEN Null ELSE NoonOf(row.date_taken), ok)
    /\ editingPhotoId' = 0
    /\ editBearing' = Null
    /\ UNCHANGED <<exifVars, uploadVars, dateVars, callVars, serviceVars, mapVars>>

cancelEdit ==
    /\ editingPhotoId # 0
    /\ editingPhotoId' = 0
    /\ editBearing' = Null
    /\ UNCHANGED photos
    /\ UNCHANGED <<exifVars, uploadVars, dateVars, callVars, serviceVars, mapVars>>

BearingNext ==
    \/ UploadExtracted
    \/ PickerPointer
    \/ PickerKey
    \/ UpdateBearingRequest
    \/ startEdit
    \/ DragHandle
    \/ saveEdit
    \/ cancelEdit

SpecBearing == BearingInit /\ [][BearingNext]_vars

-----------------------------------------------------------------------------
(* calculateBearing on its own *)

\* Math.atan2(y, x) * 180 / Math.PI in tenths of a degree, for the pair of
\* coordinates of a call: when the origin equals the target, dLng is 0, so y
\* is 0, and x is the difference of two equal products, 0: atan2(0, 0) is 0.
\* For any other pair it is the direction given, in (-180, 180].
atan2Degrees(same, deg) == IF same THEN 0 ELSE deg

ForwardCalls ==
    {[fn |-> "calculateBearing", args |-> <<same, deg>>, returned |-> FALSE,
      value |-> Null] :
       same \in BOOLEAN, deg \in -1799..1800}

ForwardInit ==
    /\ call \in ForwardCalls
    /\ ExifIdle
    /\ UploaderIdle
    /\ StoreIdle
    /\ DateIdle
    /\ ServiceIdle
    /\ MapIdle

\* The call of calculateBearing(lat1, lng1, lat2, lng2).
CalculateBearingCall ==
    /\ call.fn = "calculateBearing"
    /\ ~call.returned
    /\ call' = [call EXCEPT !.returned = TRUE,
                   !.value = calculateBearing(atan2Degrees(call.args[1], call.args[2]))]
    /\ UNCHANGED <<exifVars, uploadVars, storeVars, dateVars, serviceVars, mapVars>>

ForwardNext == CalculateBearingCall

SpecForward == ForwardInit /\ [][ForwardNext]_vars

C23_WitnessSame ==
    /\ call.returned
    /\ call.args[1]
    /\ call.value = 0

-----------------------------------------------------------------------------
(* PhotoService: the photos table, the storage bucket, the owner's rights *)

\* Users 1 and 2; the profile of user 1 has can_upload, the one of user 2 has
\* not (any more).
Users == {1, 2}

canUpload(userId) == userId = 1

\* The storage paths a call can be given; a row's thumbnail_path is 0 for null.
MaxObjects == 4

FreePaths(db) ==
    {q \in 1..MaxObjects :
       /\ q \notin db.bucket
       /\ \A r \in db.table : r.storage_path # q /\ r.thumbnail_path # q}

FreeIds(db) == {i \in 1..MaxPhotos : \A r \in db.table : r.id # i}

Least(is) == CHOOSE i \in is : \A j \in is : i <= j

HasRow(db, id) == \E r \in db.table : r.id = id

RowOf(db, id) == CHOOSE r \in db.table : r.id = id

\* storage.remove(paths): ok is FALSE when it answers with an error, which
\* its callers do not look at.
Removed(objects, paths, ok) == IF ok THEN objects \ paths ELSE objects

\* The metadata of an upload: the fields of a record that passes
\* PhotoCreateSchema, and one whose latitude does not.
GoodMetadata ==
    [latitude |-> <<10, 1>>, longitude |-> <<10, 1>>, position_source |-> "exif",
     bearing |-> <<90, 1>>, bearing_source |-> "exif",
     date_taken |-> StoredDate(PoolItems[1].chars), date_source |-> "exif",
     duration |-> Null]

BadMetadata == [GoodMetadata EXCEPT !.latitude = <<95, 1>>]

Raised(db, name) == [db |-> db, error |-> name]

\* PhotoService.upload.  env says which of the calls to the storage and to
\* the database succeed.
PhotoService_upload(db, metadata, userId, withThumbnail, env) ==
    LET storagePath == Least(FreePaths(db))
        thumbnailPath == IF withThumbnail THEN Least(FreePaths(db) \ {storagePath}) ELSE 0
        stored == db.bucket \cup {storagePath}
        both == IF withThumbnail THEN stored \cup {thumbnailPath} ELSE stored
        pathsToRemove == IF withThumbnail THEN {storagePath, thumbnailPath}
                         ELSE {storagePath}
    IN  IF ~canUpload(userId) THEN Raised(db, "NotAuthorized")
        ELSE IF ~env.main THEN Raised(db, "Storage")
        ELSE IF withThumbnail /\ ~env.thumb
        THEN Raised([db EXCEPT !.bucket = Removed(stored, {storagePath}, env.remove)],
                    "Storage")
        ELSE IF ~PhotoCreateSchema(metadata)
        THEN Raised([db EXCEPT !.bucket = Removed(both, pathsToRemove, env.remove)],
                    "Validation")
        ELSE IF ~env.insert
        THEN Raised([db EXCEPT !.bucket = Removed(both, pathsToRemove, env.remove)],
                    "Database")
        ELSE Raised([table |-> db.table \cup
                                 {[id |-> Least(FreeIds(db)), user_id |-> userId,
                                   storage_path |-> storagePath,
                                   thumbnail_path |-> thumbnailPath,
                                   latitude |-> metadata.latitude,
                                   longitude |-> metadata.longitude,
                                   position_source |-> metadata.position_source,
                                   bearing |-> metadata.bearing,
                                   bearing_source |-> metadata.bearing_source,
                                   date_taken |-> metadata.date_taken,
                                   date_source |-> metadata.date_source]},
                     bucket |-> both], "")

\* A check that lets every user edit every photo.
canBeEditedByAnyone(photo, userId) == TRUE

\* Photo.canBeEditedBy
canBeEditedBy(photo, userId) == photo.user_id = userId

\* PhotoPositionSchema.safeParse({ latitude, longitude }).success; Null is NaN.
PhotoPositionSchema(latitude, longitude) ==
    /\ latitude # Null /\ longitude # Null
    /\ RatGeInt(latitude, -90) /\ RatLeInt(latitude, 90)
    /\ RatGeInt(longitude, -180) /\ RatLeInt(longitude, 180)

\* PhotoUpdateSchema.safeParse(input).success on an input of date_taken and
\* date_source; keys the schema does not name are stripped.
PhotoUpdateSchema(input) ==
    /\ input.date_taken = Null \/ ZodDatetime(input.date_taken)
    /\ input.date_source \in {"exif", "manual"}

\* The row of id replaced by row.
Replaced(db, id, row) ==
    [db EXCEPT !.table = (db.table \ {RowOf(db, id)}) \cup {row}]

\* The three updates have one shape: the schema, getByIdOrThrow, the owner,
\* the update; env.main is FALSE when the database answers the lookup with
\* an error, env.insert when it answers the update with one.
Guarded(db, id, userId, valid, env, row) ==
    IF ~valid THEN Raised(db, "Validation")
    ELSE IF ~env.main THEN Raised(db, "Database")
    ELSE IF ~HasRow(db, id) THEN Raised(db, "NotFound")
    ELSE IF ~canBeEditedBy(RowOf(db, id), userId) THEN Raised(db, "NotAuthorized")
    ELSE IF ~env.insert THEN Raised(db, "Database")
    ELSE Raised(Replaced(db, id, row), "")

PhotoService_updatePosition(db, id, latitude, longitude, userId, env) ==
    Guarded(db, id, userId, PhotoPositionSchema(latitude, longitude), env,
            IF HasRow(db, id)
            THEN [RowOf(db, id) EXCEPT !.latitude = latitude, !.longitude = longitude,
                                       !.position_source = "manual"]
            ELSE Null)

PhotoService_updateBearing(db, id, bearing, userId, env) ==
    Guarded(db, id, userId, bearing # Null /\ PhotoBearingSchema(bearing), env,
            IF HasRow(db, id)
            THEN [RowOf(db, id) EXCEPT !.bearing = bearing, !.bearing_source = "manual"]
            ELSE Null)

PhotoService_update(db, id, input, userId, env) ==
    Guarded(db, id, userId, PhotoUpdateSchema(input), env,
            IF HasRow(db, id)
            THEN [RowOf(db, id) EXCEPT !.date_taken = input.date_taken,
                                       !.date_source = input.date_source]
            ELSE Null)

\* PhotoService.delete: the storage objects first, whose removal may fail,
\* then the row.
PhotoService_delete(db, id, userId, env) ==
    IF ~env.main THEN Raised(db, "Database")
    ELSE IF ~HasRow(db, id) THEN Raised(db, "NotFound")
    ELSE IF ~canBeEditedBy(RowOf(db, id), userId) THEN Raised(db, "NotAuthorized")
    ELSE LET existing == RowOf(db, id)
             filesToDelete == {existing.storage_path, existing.thumbnail_path} \ {0}
             emptied == [db EXCEPT !.bucket = Removed(db.bucket, filesToDelete, env.remove)]
         IN  IF ~env.insert THEN Raised(emptied, "Database")
             ELSE Raised([emptied EXCEPT !.table = db.table \ {existing}], "")

\* What the updatePositionAndBearing action answers on a service error.
StatusOf(error) ==
    CASE error = "" -> "success"
      [] error = "NotFound" -> "404"
      [] error = "NotAuthorized" -> "403"
      [] error = "Validation" -> "400"
      [] OTHER -> "throw"

\* The database answering every lookup, and the update as ok says.
Writes(ok) == [main |-> TRUE, thumb |-> TRUE, insert |-> ok, remove |-> TRUE]

\* The updatePositionAndBearing action: updatePosition, then updateBearing
\* when a bearing is given, then the date when one is given.  A Null
\* latitude or longitude is a field parseFloat turns into NaN.  env.main,
\* env.thumb and env.insert say whether the first, second and third update
\* succeed in the database.
actions_updatePositionAndBearing(db, form, userId, env) ==
    IF form.latitude = Null \/ form.longitude = Null THEN Raised(db, "400")
    ELSE LET moved == PhotoService_updatePosition(db, form.photoId, form.latitude,
                                                  form.longitude, userId, Writes(env.main))
             turned == IF form.bearing # Null
                       THEN PhotoService_updateBearing(moved.db, form.photoId,
                                                       form.bearing, userId, Writes(env.thumb))
                       ELSE moved
             dated == IF form.dateTaken # Null
                      THEN PhotoService_update(turned.db, form.photoId,
                                               [date_taken |-> form.dateTaken,
                                                date_source |-> "manual"],
                                               userId, Writes(env.insert))
                      ELSE turned
         IN  IF moved.error # "" THEN Raised(moved.db, StatusOf(moved.error))
             ELSE IF turned.error # "" THEN Raised(turned.db, StatusOf(turned.error))
             ELSE Raised(dated.db, StatusOf(dated.error))

\* The outcomes of the calls to the storage and to the database: at most one
\* of the calls that write fails, and storage.remove succeeds or fails.
Envs ==
    {e \in [main : BOOLEAN, thumb : BOOLEAN, insert : BOOLEAN, remove : BOOLEAN] :
       Cardinality({k \in {"main", "thumb", "insert"} : ~e[k]}) <= 1}

\* The outcomes of a lookup and an update.
Lookups == {e \in Envs : e.thumb /\ e.remove}

Db == [table |-> table, bucket |-> bucket]

\* A row of each user, with and without a thumbnail, or an empty table.
StoredRow(userId, thumbnailPath) ==
    [id |-> 1, user_id |-> userId, storage_path |-> 1, thumbnail_path |-> thumbnailPath,
     latitude |-> <<10, 1>>, longitude |-> <<10, 1>>, position_source |-> "exif",
     bearing |-> <<90, 1>>, bearing_source |-> "exif",
     date_taken |-> StoredDate(PoolItems[1].chars), date_source |-> "exif"]

ServiceInit ==
    /\ \/ table = {} /\ bucket = {}
       \/ \E u \in Users : table = {StoredRow(u, 0)} /\ bucket = {1}
       \/ \E u \in Users : table = {StoredRow(u, 2)} /\ bucket = {1, 2}
    /\ reply = NoReply
    /\ ExifIdle
    /\ UploaderIdle
    /\ StoreIdle
    /\ DateIdle
    /\ CallIdle
    /\ MapIdle

Answer(op, userId, id, env, out) ==
    /\ table' = out.db.table
    /\ bucket' = out.db.bucket
    /\ reply' = [op |-> op, user |-> userId, id |-> id, error |-> out.error,
                 removed |-> env.remove \/ ~env.main]
    /\ UNCHANGED <<exifVars, uploadVars, storeVars, dateVars, callVars, mapVars>>

Upload ==
    /\ Cardinality(FreePaths(Db)) >= 2
    /\ FreeIds(Db) # {}
    /\ \E u \in Users, metadata \in {GoodMetadata, BadMetadata}, withThumbnail \in BOOLEAN,
          env \in Envs :
         /\ ~canUpload(u) => (metadata = GoodMetadata /\ ~withThumbnail /\ env = Writes(TRUE))
         /\ metadata = BadMetadata => (env.main /\ env.thumb /\ env.insert)
         /\ Answer("upload", u, 0, env,
                   PhotoService_upload(Db, metadata, u, withThumbnail, env))

\* The arguments of the calls: a value the schema accepts and one it rejects.
Positions20 == <<20, 1>>

Bearings45 == <<45, 1>>

ManualDate == NoonOf(StoredDate(PoolItems[2].chars))

Positions == {Positions20, <<95, 1>>}

Bearings == {Bearings45, <<400, 1>>}

Dates == {ManualDate, <<50, 48>>}

UpdatePosition ==
    /\ \E u \in Users, id \in 1..MaxPhotos, latitude \in Positions, env \in Lookups :
         Answer("updatePosition", u, id, env,
                PhotoService_updatePosition(Db, id, latitude, <<30, 1>>, u, env))

UpdateBearing ==
    /\ \E u \in Users, id \in 1..MaxPhotos, bearing \in Bearings, env \in Lookups :
         Answer("updateBearing", u, id, env,
                PhotoService_updateBearing(Db, id, bearing, u, env))

Update ==
    /\ \E u \in Users, id \in 1..MaxPhotos, date \in Dates, env \in Lookups :
         Answer("update", u, id, env,
                PhotoService_update(Db, id, [date_taken |-> date, date_source |-> "manual"],
                                    u, env))

Delete ==
    /\ \E u \in Users, id \in 1..MaxPhotos, env \in {e \in Envs : e.thumb} :
         Answer("delete", u, id, env, PhotoService_delete(Db, id, u, env))

\* The forms are posted with every update succeeding, and the form of the
\* edit mode also with one update failing.
FormOutcomes(form, env) ==
    \/ env = Writes(TRUE)
    \/ env.remove /\ form.latitude = Positions20 /\ form.bearing = Bearings45
                  /\ form.dateTaken = ManualDate

\* The forms posted to the action: what the map's edit mode posts, a form
\* without bearing and date, and forms with one field out of range or no
\* number.
Forms ==
    {[photoId |-> id, latitude |-> f[1], longitude |-> <<30, 1>>, bearing |-> f[2],
      dateTaken |-> f[3]] :
       id \in 1..MaxPhotos,
       f \in {<<Positions20, Bearings45, ManualDate>>, <<Positions20, Null, Null>>,
              <<Positions20, <<400, 1>>, ManualDate>>,
              <<Null, Bearings45, ManualDate>>, <<Positions20, Bearings45, <<50, 48>>>>}}

UpdatePositionAndBearing ==
    /\ \E u \in Users, form \in Forms, env \in Envs :
         /\ FormOutcomes(form, env)
         /\ Answer("updatePositionAndBearing", u, form.photoId, env,
                   actions_updatePositionAndBearing(Db, form, u, env))

ServiceNext ==
    \/ Upload
    \/ UpdatePosition
    \/ UpdateBearing
    \/ Update
    \/ Delete
    \/ UpdatePositionAndBearing

SpecService == ServiceInit /\ [][ServiceNext]_vars

\* C27 as stated: a failed PhotoService.upload leaves the bucket and the
\* photos table as they were before the call, and a caller without can_upload
\* is answered NotAuthorized.
C27_FailedUploadLeavesNoTrace ==
    [][reply'.op = "upload" =>
         /\ reply'.error # "" => (table' = table /\ bucket' = bucket)
         /\ ~canUpload(reply'.user) => reply'.error = "NotAuthorized"]_vars

\* A failed upload leaves no trace when storage.remove succeeds, and when it
\* fails before anything was stored.
C27_WhenRemoveSucceeds ==
    [][(reply'.op = "upload" /\ reply'.error # ""
          /\ (reply'.removed \/ ~canUpload(reply'.user))) =>
         (table' = table /\ bucket' = bucket)]_vars

\* The four operations that change or delete a photo.
OwnerOps == {"updatePosition", "updateBearing", "update", "delete"}

\* The call answered last was made on an existing photo by a user who is not
\* its owner.
ByNonOwner(rows, answer) ==
    /\ answer.op \in OwnerOps
    /\ \E r \in rows : r.id = answer.id /\ r.user_id # answer.user

\* Every row that was changed or deleted was the caller's own.
OnlyOwnRowsTouched ==
    \A r \in table : r \notin table' => r.user_id = reply'.user

\* C28 as stated: for every photo and every user who is not its owner,
\* updatePosition, updateBearing, update and delete raise NotAuthorized and
\* leave the row and the storage objects unchanged; rows are changed and
\* deleted only by calls made with their owner's user id.
C28_NonOwnerIsNotAuthorized ==
    [][/\ ByNonOwner(table, reply') =>
            /\ reply'.error = "NotAuthorized"
            /\ table' = table /\ bucket' = bucket
       /\ OnlyOwnRowsTouched]_vars

\* C28: for every photo and every user who is not its owner, the four
\* operations raise an error and leave the row and the storage objects
\* unchanged: Validation when the arguments fail the operation's schema,
\* which is checked first, a database error when the lookup of the row
\* fails, and NotAuthorized otherwise; rows are changed and deleted only by
\* calls made with their owner's user id.
C28_NonOwnerChangesNothing ==
    [][/\ ByNonOwner(table, reply') =>
            /\ reply'.error \in {"NotAuthorized", "Validation", "Database"}
            /\ reply'.error = "Validation" => reply'.op # "delete"
            /\ table' = table /\ bucket' = bucket
       /\ OnlyOwnRowsTouched]_vars

\* A call of updateBearing by the user who does not own the photo was
\* answered NotAuthorized.
C28_Witness ==
    /\ reply.op = "updateBearing" /\ reply.error = "NotAuthorized"
    /\ \E r \in table : r.id = reply.id /\ r.user_id # reply.user /\ r.bearing = <<90, 1>>

\* C29 as stated: the updatePositionAndBearing action is all-or-nothing:
\* whenever it returns a failure (400, 403 or 404) or throws, the photo's
\* stored position, bearing and date are the same as before the action.
C29_AllOrNothing ==
    [][(reply'.op = "updatePositionAndBearing" /\ reply'.error # "success") =>
         table' = table]_vars

\* An action answered 403 or 404 changed nothing: the owner and the row are
\* looked up before the first update.
C29_RefusedChangesNothing ==
    [][(reply'.op = "updatePositionAndBearing" /\ reply'.error \in {"403", "404"}) =>
         table' = table]_vars

-----------------------------------------------------------------------------
(* PhotoMap: the edit mode, the markers, the direction indicator *)

\* canEditPhoto on a map that is editable.
canEditPhoto(photoId) == MapPhotos[photoId].mine

\* removeDirectionIndicator
removeDirectionIndicator(pm) ==
    [pm EXCEPT !.directionLine = FALSE, !.directionHandle = FALSE]

\* createDirectionIndicator on a map that is ready: the indicator there is
\* is removed, a line and a handle are created.
createDirectionIndicator(pm) ==
    [removeDirectionIndicator(pm) EXCEPT !.directionLine = TRUE, !.directionHandle = TRUE]

\* startEdit(photoId) on a photo of the list: it returns when the user cannot
\* edit the photo; otherwise it sets the edit state, attaches handleMarkerDrag
\* to the photo's marker and creates the indicator.  An edit in progress is
\* not looked at.
startEditOf(pm, photoId) ==
    IF ~canEditPhoto(photoId) THEN pm
    ELSE createDirectionIndicator(
             [pm EXCEPT !.editingPhotoId = photoId,
                        !.editPosition = pm.stored[photoId],
                        !.editBearing = MapPhotos[photoId].bearing,
                        !.markers[photoId].drag = TRUE])

\* cancelEdit: the marker back at the photo's coordinates, handleMarkerDrag
\* detached, the indicator removed, the edit state cleared.
cancelEditOf(pm) ==
    IF pm.editingPhotoId = 0 THEN pm
    ELSE removeDirectionIndicator(
             [pm EXCEPT !.markers[pm.editingPhotoId] =
                            [latlng |-> pm.stored[pm.editingPhotoId], drag |-> FALSE],
                        !.editingPhotoId = 0,
                        !.editPosition = Null,
                        !.editBearing = Null])

\* enterEditMode(photoId)
enterEditMode(pm, photoId) ==
    IF pm.editingPhotoId # 0 /\ pm.editingPhotoId # photoId
    THEN startEditOf(cancelEditOf(pm), photoId)
    ELSE startEditOf(pm, photoId)

\* handleMarkerDrag: the position of the edited photo's marker becomes the
\* edit position.
handleMarkerDrag(pm) ==
    IF pm.editingPhotoId = 0 THEN pm
    ELSE [pm EXCEPT !.editPosition = pm.markers[pm.editingPhotoId].latlng]

\* updateMarkers after the photos changed: every marker at its photo's
\* coordinates.
updateMarkers(pm) ==
    [pm EXCEPT !.markers = [i \in 1..3 |-> [pm.markers[i] EXCEPT !.latlng = pm.stored[i]]]]

\* The places a marker can be dragged to.
Places == {<<10, 10>>, <<20, 20>>, <<40, 40>>}

MapInit ==
    /\ photoMap = NoEdit
    /\ ExifIdle
    /\ UploaderIdle
    /\ StoreIdle
    /\ DateIdle
    /\ CallIdle
    /\ ServiceIdle

MapFrame ==
    UNCHANGED <<exifVars, uploadVars, storeVars, dateVars, callVars, serviceVars>>

\* The page calls enterEditMode for a photo of the list.
EnterEditMode ==
    /\ \E photoId \in 1..3 :
         photoMap' = [enterEditMode(photoMap, photoId) EXCEPT !.via = "enterEditMode"]
    /\ MapFrame

\* The Edit button in the popup of a photo's marker, which the popup has when
\* the user can edit the photo.
PopupEditButton ==
    /\ \E photoId \in 1..3 :
         /\ canEditPhoto(photoId)
         /\ photoMap' = [startEditOf(photoMap, photoId) EXCEPT !.via = "popup"]
    /\ MapFrame

\* The user drags the marker of one of their photos while a photo is
\* edited; handleMarkerDrag runs when it is attached to the marker.  (The
\* marker's dragend handler, which calls onPhotoMove, is left out: the stored
\* coordinates change only through Save.)
MarkerDrag ==
    /\ photoMap.editingPhotoId # 0
    /\ \E photoId \in 1..3, place \in Places :
         /\ canEditPhoto(photoId)
         /\ LET dragged == [photoMap EXCEPT !.markers[photoId].latlng = place,
                                            !.via = "drag"]
            IN  photoMap' = IF photoMap.markers[photoId].drag
                            THEN handleMarkerDrag(dragged)
                            ELSE dragged
    /\ MapFrame

\* The user drags the direction handle.
HandleDrag ==
    /\ photoMap.directionHandle /\ photoMap.editPosition # Null
    /\ \E deg \in {0, 450, 3597} :
         photoMap' = [photoMap EXCEPT !.editBearing = <<MathRound(calculateBearing(deg)), 1>>,
                                      !.via = "drag"]
    /\ MapFrame

\* The Save button: onPhotoUpdate, then cancelEdit; when the update succeeds
\* the photos are loaded again and updateMarkers runs.
SaveButton ==
    /\ photoMap.editingPhotoId # 0 /\ photoMap.editPosition # Null
    /\ \E ok \in BOOLEAN :
         LET cancelled == [cancelEditOf(photoMap) EXCEPT !.via = "save"] IN
         photoMap' = IF ok
                     THEN updateMarkers([cancelled EXCEPT
                              !.stored[photoMap.editingPhotoId] = photoMap.editPosition])
                     ELSE cancelled
    /\ MapFrame

\* The Cancel button, and exitEditMode.
CancelButton ==
    /\ photoMap' = [cancelEditOf(photoMap) EXCEPT !.via = "cancel"]
    /\ MapFrame

MapNext ==
    \/ EnterEditMode
    \/ PopupEditButton
    \/ MarkerDrag
    \/ HandleDrag
    \/ SaveButton
    \/ CancelButton

SpecMap == MapInit /\ [][MapNext]_vars

\* An edit starts for a photo while another photo is being edited.
EditTakenOver ==
    /\ photoMap.editingPhotoId # 0 /\ photoMap'.editingPhotoId # 0
    /\ photoMap'.editingPhotoId # photoMap.editingPhotoId

\* The photo edited before the step is as cancelEdit leaves it: its marker at
\* the stored coordinates, handleMarkerDrag detached.
PreviousEditCancelled ==
    LET a == photoMap.editingPhotoId IN
    /\ photoMap'.markers[a].latlng = photoMap'.stored[a]
    /\ ~photoMap'.markers[a].drag

\* The direction line and handle exist exactly when a photo is edited, and
\* the edit position is set exactly then.
IndicatorIffEditing ==
    /\ (photoMap.directionLine /\ photoMap.directionHandle) <=> photoMap.editingPhotoId # 0
    /\ photoMap.directionLine <=> photoMap.directionHandle
    /\ photoMap.editPosition # Null <=> photoMap.editingPhotoId # 0

\* C30 as stated: at most one photo is in edit state: when editing starts
\* for a photo B while another photo A is edited, through enterEditMode or
\* through the Edit button of B's popup, A's marker is put back at its stored
\* coordinates and its drag handler is detached; the direction line and
\* handle exist exactly when editingPhotoId is set, and so does editPosition.
C30_OneEditAtATime ==
    /\ [][EditTakenOver => PreviousEditCancelled]_vars
    /\ [](\A i \in 1..3 : photoMap.markers[i].drag => photoMap.editingPhotoId = i)
    /\ []IndicatorIffEditing

\* Through enterEditMode the edit in progress is cancelled first, and after
\* any sequence of events the indicator and the edit position exist exactly
\* when a photo is edited.
C30_ThroughEnterEditMode ==
    /\ [][(EditTakenOver /\ photoMap'.via = "enterEditMode") => PreviousEditCancelled]_vars
    /\ []IndicatorIffEditing

-----------------------------------------------------------------------------
(* Claims about the uploader *)

EventAt(e, id) == {j \in 1..Len(events) : events[j] = Event(e, id)}

\* The stripExifData call for file id resolved before the entry was built.
StrippedBeforeAttached(id) ==
    \E j \in EventAt("resolved", id) : \E k \in EventAt("attached", id) : j < k

EntriesOf(entries, id) == {i \in 1..Len(entries) : entries[i].file.origin = id}

\* C3: for every non-video file handed on for upload, the 'file' field posted
\* is the output of a stripExifData call that resolved before the metadata
\* was attached to the entry, never the original file; when stripExifData
\* rejects, no entry for the file is passed to onUpload and nothing is posted
\* for it.
C3_PostedFileIsStripped ==
    /\ \A i \in 1..Len(posted) :
         posted[i].mediaType = "photo" =>
           /\ posted[i].file = StrippedFileOf(selected[handed[i].file.origin])
           /\ posted[i].file # handed[i].file
           /\ posted[i].file.content = "reencoded"
           /\ StrippedBeforeAttached(handed[i].file.origin)
           /\ posted[i].latitude = handed[i].exifData.latitude
    /\ \A i \in 1..Len(uploadedFiles) :
         uploadedFiles[i].mediaType = "photo" =>
           /\ uploadedFiles[i].strippedFile.content = "reencoded"
           /\ StrippedBeforeAttached(uploadedFiles[i].file.origin)
    /\ \A j \in 1..Len(events) :
         events[j].e = "rejected" =>
           /\ EntriesOf(uploadedFiles, events[j].id) = {}
           /\ EntriesOf(handed, events[j].id) = {}
           /\ EventAt("posted", events[j].id) = {}

\* A batch in which the strip of one file was rejected and the photo of
\* another, with its coordinates, was posted.
C3_Witness ==
    /\ \E i \in 1..Len(posted) :
         posted[i].mediaType = "photo" /\ posted[i].latitude # Null
    /\ \E j \in 1..Len(events) : events[j].e = "rejected"
    /\ hpc = "finished"

\* C4: stripExifData never resolves with the original file: it resolves only
\* with a new File built from the encoder's blob, it rejects with an explicit
\* error when the image fails to load, when there is no 2D context and when
\* the encoder yields no blob, and the promise settles exactly once on each
\* of these paths.
C4_StripNeverPassesThrough ==
    /\ strip.calls <= 1
    /\ strip.state \in {"resolved", "rejected"} <=> strip.calls = 1
    /\ strip.state = "resolved" =>
         /\ strip.path = "blob"
         /\ strip.value = StrippedFileOf(files[idx])
         /\ strip.value # FileRef(files[idx])
         /\ strip.value.content # "original"
    /\ strip.path = "blob" => strip.state = "resolved"
    /\ strip.path = "loadError" =>
         strip.state = "rejected" /\ strip.error = "Failed to load image"
    /\ strip.path = "noContext" =>
         strip.state = "rejected" /\ strip.error = "Failed to get canvas context"
    /\ strip.path = "noBlob" =>
         strip.state = "rejected" /\ strip.error = "Failed to create blob"
    /\ strip.path # "" => strip.calls = 1 /\ ~strip.urlOpen

\* The encoder yielded no blob and the promise was rejected, once.
C4_Witness ==
    /\ strip.path = "noBlob"
    /\ strip.state = "rejected"
    /\ strip.calls = 1

\* What extractExifData decoded from the file a record was created for: the
\* exifData of its entry for an image, nothing for a video (extractExifData
\* is not called on a video).
DecodedFor(row) ==
    LET i == CHOOSE k \in 1..Len(handed) : handed[k].file.origin = row.origin IN
    IF handed[i].mediaType = "photo" THEN handed[i].exifData ELSE AllAbsent

\* C18: in a created record a provenance tag is 'exif' exactly when the value
\* it stands for was decoded from the file's EXIF metadata by the extractor:
\* position_source for latitude and longitude, bearing_source for bearing,
\* date_source for date_taken; any other value is tagged 'manual', and
\* bearing_source is null when there is no bearing.
C18_ExifTagMeansDecoded ==
    \A i \in 1..Len(photos) :
        LET row == photos[i]
            decoded == DecodedFor(row)
        IN  /\ row.position_source = "exif" <=>
                 /\ row.latitude # Null /\ row.longitude # Null
                 /\ row.latitude = decoded.latitude
                 /\ row.longitude = decoded.longitude
            /\ row.position_source \in {"exif", "manual"}
            /\ row.bearing_source = "exif" <=>
                 (row.bearing # Null /\ row.bearing = decoded.bearing)
            /\ row.bearing_source = "none" <=> row.bearing = Null
            /\ row.date_source = "exif" <=>
                 (row.date_taken # Null /\ row.date_taken = decoded.dateTaken)
            /\ row.date_source \in {"exif", "manual"}

\* The same on the records created for images only.
C18_OnImages ==
    \A i \in 1..Len(photos) :
        photos[i].media_type = "photo" =>
            LET row == photos[i]
                decoded == DecodedFor(row)
            IN  /\ row.position_source = "exif" <=>
                     /\ row.latitude # Null /\ row.longitude # Null
                     /\ row.latitude = decoded.latitude
                     /\ row.longitude = decoded.longitude
                /\ row.bearing_source = "exif" <=>
                     (row.bearing # Null /\ row.bearing = decoded.bearing)
                /\ row.bearing_source = "none" <=> row.bearing = Null
                /\ row.date_source = "exif" <=>
                     (row.date_taken # Null /\ row.date_taken = decoded.dateTaken)

\* C17: no sequence of operations stores a bearing equal to 360: after any
\* upload with an extracted bearing, any drag of the direction handle
\* followed by save, any DirectionPicker pointer or keyboard input and any
\* updateBearing call that succeeds, every stored bearing b satisfies
\* 0 <= b < 360.
C17_StoredBearingBelow360 ==
    \A i \in 1..Len(photos) :
        photos[i].bearing # Null =>
            RatGeInt(photos[i].bearing, 0) /\ RatLtInt(photos[i].bearing, 360)

\* The same on the bearings set after the upload.
C17_EditedBearingBelow360 ==
    \A i \in 1..Len(photos) :
        photos[i].bearing_source = "manual" => RatLtInt(photos[i].bearing, 360)

\* The same with the direction handle's bearing, before it is saved.
C17_EditBearingBelow360 ==
    editBearing # Null => RatLtInt(editBearing, 360)

\* No bearing above 360 or below 0 is stored.
C17_StoredBearingAtMost360 ==
    \A i \in 1..Len(photos) :
        photos[i].bearing # Null =>
            RatGeInt(photos[i].bearing, 0) /\ RatLeInt(photos[i].bearing, 360)

=============================================================================
